---- MODULE Spec2Model ----
(***************************************************************************)
(* Model of the social-media pipeline's storage core: storage.py (load,    *)
(* save, deduplicate, merge, backup), the entry points of pipeline.py,     *)
(* process_existing_data.py and workflow_manager.py that write the master  *)
(* dataset file, and the labeling step of gpt_labeler.py.                  *)
(*                                                                         *)
(* A table (DataFrame) is a sequence of rows; a row is a record from       *)
(* column names to cells; a cell is a string or Null (NaN / pd.NA).        *)
(***************************************************************************)
EXTENDS Integers, Sequences, FiniteSets, TLC

\* The missing value of a cell (NaN, None, pd.NA and the empty Excel cell).
Null == "<NA>"

\* ------------------------------------------------------------------ bounds
\* Longest list of raw posts one scrape returns.
MaxBatch == 2
\* Number of entry-point runs (processes) in one behaviour.
MaxRuns == 2
\* Longest table handed to deduplicate_posts in SpecDedup, and most posts in
\* the master file in SpecWindows.
MaxLen == 3
\* Latest day, counted from config.ANALYSIS_END_DATE, on which the summary
\* generator runs in SpecWindows.
MaxDaysLater == 2

\* --------------------------------------------------------------- variables
VARIABLES
    fileExists,          \* a file exists at config.MASTER_XLSX
    fileRows,            \* the rows stored in that file
    backupsDirExists,    \* the directory <parent>/backups exists
    backups,             \* backup files: timestamp -> rows copied
    clock,               \* datetime.now() at one-second resolution
    runs,                \* entry-point runs started so far
    pc,                  \* position of the running entry point
    entry,               \* the entry point that is running
    ENABLE_GPT_LABELING, \* config.ENABLE_GPT_LABELING of the running process
    all_posts,           \* raw posts returned by the scraper
    df,                  \* the in-memory table of the run
    existing_posts,      \* what load_excel returned inside the merge
    combined_df,         \* what merge_with_existing_data returned
    submitted,           \* post_ids whose content was sent to the LLM
    fs_ops,              \* operations of this run on the dataset path
    replaced,            \* rows the file held before this run's write
    raised,              \* the exception that ended the run, "" when none
    dd_table,            \* SpecDedup: the input table
    dd_keys,             \* SpecDedup: the key list
    dd_once,             \* SpecDedup: deduplicate_posts(dd_table, dd_keys)
    dd_twice,            \* SpecDedup: deduplicate_posts(dd_once, dd_keys)
    dd_pc,               \* SpecDedup: number of applications done
    dd_raised,           \* SpecDedup: a call raised
    sv_pc,               \* SpecSave: position inside save_excel
    sv_df,               \* SpecSave: the table being saved
    sv_exists,           \* SpecSave: a file exists at the path
    sv_complete,         \* SpecSave: the file is a complete workbook
    sv_rows,             \* SpecSave: the rows of the complete workbook
    sv_prev,             \* SpecSave: the file as it was before the call
    sv_observed,         \* SpecSave: what the last concurrent read returned
    tr_pc,               \* SpecTransform: next step of process_social_media_data
    tr_posts,            \* SpecTransform: the scraped posts
    tr_df,               \* SpecTransform: df inside process_social_media_data
    tr_in,               \* SpecTransform: the argument of standardize_facebook_data
    tr_file,             \* SpecTransform: the rows save_excel wrote
    tr_loaded,           \* SpecTransform: what load_excel returned
    wn_pc,               \* SpecWindows: next step of the dashboard / summary run
    wn_caller,           \* SpecWindows: who loads the data
    wn_today,            \* SpecWindows: datetime.now().date()
    wn_custom,           \* SpecWindows: the period selected in the dashboard
    wn_posts,            \* SpecWindows: the posts of the master file
    wn_loaded,           \* SpecWindows: what load_data / load_and_filter_data returned
    wn_stats,            \* SpecWindows: changes from get_brand_stats / calculate_comparison_stats
    wn_tab,              \* SpecWindows: changes from the dashboard's per-brand tab
    lb_pc,               \* SpecLabel: position inside label_posts_with_gpt
    lb_in,               \* SpecLabel: the table the function is called with
    lb_df,               \* SpecLabel: df after cleaning and deduplication
    lb_pending,          \* SpecLabel: submitted tasks whose result is not collected
    lb_tasks,            \* SpecLabel: the collected tasks, in the order of completion
    lb_lists,            \* SpecLabel: summaries, cluster1_list, cluster2_list, cluster3_list
    lb_out,              \* SpecLabel: the table returned
    sm_pc,               \* SpecSummaries: position inside generate_all_summaries
    sm_exists,           \* SpecSummaries: data/summaries.xlsx exists
    sm_complete,         \* SpecSummaries: the file is a complete workbook
    sm_rows,             \* SpecSummaries: the rows of the complete workbook
    sm_today,            \* SpecSummaries: datetime.now().date() of the run
    sm_new,              \* SpecSummaries: the summaries dict of the run
    sm_combined,         \* SpecSummaries: df_combined
    sm_before,           \* SpecSummaries: the rows stored when the run started
    sm_initial,          \* SpecSummaries: the rows stored before the first run
    sm_started,          \* SpecSummaries: runs started
    sm_done,             \* SpecSummaries: runs that returned
    mn_pc,               \* SpecMain: position inside main / continue_from_snapshot
    mn_entry,            \* SpecMain: which of the two is running
    mn_labeling,         \* SpecMain: config.ENABLE_GPT_LABELING after the key check
    mn_posts,            \* SpecMain: the posts scraped or downloaded
    mn_processed,        \* SpecMain: what process_social_media_data returned
    mn_df,               \* SpecMain: df
    mn_combined,         \* SpecMain: combined_df
    mn_disk,             \* SpecMain: dataset file, backups and summaries file
    mn_before,           \* SpecMain: mn_disk when the run started
    mn_steps,            \* SpecMain: the functions called so far, in order
    wt_pc,               \* SpecWait: position inside wait_for_snapshot_ready
    wt_max,              \* SpecWait: max_wait_minutes
    wt_elapsed,          \* SpecWait: elapsed_seconds
    wt_polls,            \* SpecWait: requests.get calls made so far
    wt_seen,             \* SpecWait: what each of them gave, in order
    wt_result            \* SpecWait: the value returned ("pending" before)

fsVars == <<fileExists, fileRows, backupsDirExists, backups, clock>>
localVars == <<all_posts, df, existing_posts, combined_df, submitted, fs_ops, replaced, raised>>
ddVars == <<dd_table, dd_keys, dd_once, dd_twice, dd_pc, dd_raised>>
svVars == <<sv_pc, sv_df, sv_exists, sv_complete, sv_rows, sv_prev, sv_observed>>
\* The variables of the specifications of single functions.
trVars == <<tr_pc, tr_posts, tr_df, tr_in, tr_file, tr_loaded>>
wnVars == <<wn_pc, wn_caller, wn_today, wn_custom, wn_posts, wn_loaded, wn_stats, wn_tab>>
lbVars == <<lb_pc, lb_in, lb_df, lb_pending, lb_tasks, lb_lists, lb_out>>
smVars == <<sm_pc, sm_exists, sm_complete, sm_rows, sm_today, sm_new, sm_combined,
           sm_before, sm_initial, sm_started, sm_done>>
mnVars == <<mn_pc, mn_entry, mn_labeling, mn_posts, mn_processed, mn_df, mn_combined,
           mn_disk, mn_before, mn_steps>>
wtVars == <<wt_pc, wt_max, wt_elapsed, wt_polls, wt_seen, wt_result>>
moreVars == <<lbVars, smVars, mnVars, wtVars>>
unitVars == <<ddVars, svVars, trVars, wnVars, moreVars>>
\* The variables of the pipeline runs of Spec.
runVars == <<fsVars, runs, pc, entry, ENABLE_GPT_LABELING, localVars>>
vars == <<runVars, unitVars>>

\* ------------------------------------------------------------ config.py
DEDUP_KEYS == <<"post_id">>

\* ------------------------------------------------------------ sequences
RECURSIVE SeqsUpTo(_, _)
SeqsUpTo(S, n) ==
    IF n = 0 THEN {<<>>}
    ELSE LET shorter == SeqsUpTo(S, n - 1)
         IN shorter \cup {Append(s, x) : s \in {t \in shorter : Len(t) = n - 1}, x \in S}

\* ------------------------------------------------------------ storage.py
\* df[key].astype("string"): a string cell keeps its text, a missing cell
\* becomes <NA>.  Cells are modelled by their text, so on them the cast keeps
\* the value.
AsString(cell) == IF cell = Null THEN Null ELSE cell

\* Lines 71-75: a missing key column is added as pd.NA, every key column is
\* cast to string.
EnsureKeys(row, keys) ==
    LET present == {keys[i] : i \in DOMAIN keys} \cap DOMAIN row
        missing == {keys[i] : i \in DOMAIN keys} \ DOMAIN row
    IN [c \in DOMAIN row \cup missing |->
          IF c \in missing THEN Null
          ELSE IF c \in present THEN AsString(row[c])
          ELSE row[c]]

KeyOf(row, keys) == [i \in DOMAIN keys |-> row[keys[i]]]

\* DataFrame.drop_duplicates(subset=keys, keep="first"): scan in order, a row
\* is dropped when a row with the same key values came before it.
RECURSIVE DropDuplicatesFrom(_, _, _, _)
DropDuplicatesFrom(rows, keys, i, seen) ==
    IF i > Len(rows) THEN <<>>
    ELSE LET k == KeyOf(rows[i], keys)
         IN IF k \in seen
            THEN DropDuplicatesFrom(rows, keys, i + 1, seen)
            ELSE <<rows[i]>> \o DropDuplicatesFrom(rows, keys, i + 1, seen \cup {k})

\* Mutant: keep="last" instead of keep="first".
DropDuplicatesKeepLast(rows, keys) ==
    LET n == Len(rows)
        rev == [i \in 1 .. n |-> rows[n + 1 - i]]
        kept == DropDuplicatesFrom(rev, keys, 1, {})
        m == Len(kept)
    IN [i \in 1 .. m |-> kept[m + 1 - i]]

\* Mutant: only the first duplicated row found is dropped.
RECURSIVE DropOneDuplicateFrom(_, _, _, _)
DropOneDuplicateFrom(rows, keys, i, seen) ==
    IF i > Len(rows) THEN <<>>
    ELSE LET k == KeyOf(rows[i], keys)
         IN IF k \in seen
            THEN SubSeq(rows, i + 1, Len(rows))
            ELSE <<rows[i]>> \o DropOneDuplicateFrom(rows, keys, i + 1, seen \cup {k})

DropOneDuplicate(rows, keys) == DropOneDuplicateFrom(rows, keys, 1, {})

DropDuplicates(rows, keys) == DropDuplicatesFrom(rows, keys, 1, {})

deduplicate_posts(table, keys) ==
    IF table = <<>> THEN table
    ELSE DropDuplicates([i \in DOMAIN table |-> EnsureKeys(table[i], keys)], keys)

\* Mutant: a key column the table lacks is not added, and selecting it raises
\* KeyError.
DedupMissingKeyRaises(table, keys) ==
    table # <<>> /\ \E i \in DOMAIN keys : keys[i] \notin DOMAIN table[1]

\* Whether deduplicate_posts(table, keys) raises: never, an empty table is
\* returned at once (lines 64-65) and a missing key column is added before
\* it is read (lines 71-75).
deduplicate_posts_raises(table, keys) == FALSE

\* transform.py, standardize_facebook_data: the ordered aliases of every
\* standard column.
field_mappings == <<
    [col |-> "post_id", candidates |-> <<"id", "post_id", "snapshot/id">>],
    [col |-> "created_date", candidates |-> <<"created_time", "snapshot/created_time", "timestamp">>],
    [col |-> "content", candidates |-> <<"message", "snapshot/message", "text", "snapshot/text">>],
    [col |-> "brand", candidates |-> <<"page_name", "snapshot/page_name", "from/name">>],
    [col |-> "likes", candidates |-> <<"likes/count", "snapshot/likes/count", "reactions/like">>],
    [col |-> "comments", candidates |-> <<"comments/count", "snapshot/comments/count">>],
    [col |-> "shares", candidates |-> <<"shares/count", "snapshot/shares/count">>],
    [col |-> "engagement", candidates |-> <<"engagement", "snapshot/engagement">>],
    [col |-> "reach", candidates |-> <<"reach", "snapshot/reach">>],
    [col |-> "source_url", candidates |-> <<"source_url", "url", "snapshot/url">> ] >>

\* transform.py, ensure_standard_columns: the columns that are kept.
essential_columns == {
    "platform", "post_id", "created_date", "brand", "content", "source_url",
    "likes", "comments", "shares", "total_engagement", "engagement_rate",
    "page_name", "user_username_raw", "date_posted", "num_comments", "num_shares",
    "post_summary", "cluster_1", "cluster_2", "cluster_3", "scraped_at" }

\* The columns that hold counts: their cells are numbers, the missing value
\* of such a cell is NaN; every other column holds strings or Null.
NaN == -1
CountFields == {"likes", "comments", "shares", "engagement", "reach"}
NumericCols ==
    {"likes", "comments", "shares", "engagement", "reach", "num_comments",
     "num_shares", "total_engagement", "engagement_rate"}
    \cup UNION { {field_mappings[m].candidates[j] : j \in DOMAIN field_mappings[m].candidates} :
                 m \in {k \in DOMAIN field_mappings : field_mappings[k].col \in CountFields} }
Missing(col) == IF col \in NumericCols THEN NaN ELSE Null
IsMissing(col, cell) == cell = Missing(col)

\* DataFrame.to_excel: a missing value and an empty string are both written
\* as an empty cell; any other text is written as it is, a number as a
\* number cell.
ToExcelCell(cell) == IF cell = "" \/ cell = Null THEN Null ELSE cell
ToExcel(table) ==
    [i \in DOMAIN table |->
        [c \in DOMAIN table[i] |->
            IF c \in NumericCols THEN table[i][c] ELSE ToExcelCell(table[i][c])]]

\* Mutant: the number cells are read as empty.
ReadExcelCountsLost(rows) ==
    [i \in DOMAIN rows |->
        [c \in DOMAIN rows[i] |-> IF c \in NumericCols THEN Null ELSE rows[i][c]]]

\* pd.read_excel(path, dtype=str): every cell comes back as text, a number
\* cell as its decimal text, an empty cell as NaN.
ReadExcelStr(rows) ==
    [i \in DOMAIN rows |->
        [c \in DOMAIN rows[i] |->
            IF c \in NumericCols
            THEN (IF rows[i][c] = NaN THEN Null ELSE ToString(rows[i][c]))
            ELSE rows[i][c]]]

\* load_excel: the stored rows (read with dtype=str, an empty cell as NaN)
\* when the file exists and the read succeeds; an empty table when the file
\* is missing or the read raises (the except branch, lines 27-29).
load_excel(exists, rows, readOk) ==
    IF exists /\ readOk THEN ReadExcelStr(rows) ELSE <<>>

\* Mutant: no path.exists() test, the read of a missing file raises.
LoadExcelNoExistsCheck(exists, readOk) == ~exists

\* Whether load_excel(path) raises: never, a missing file takes the else
\* branch and an error of read_excel is caught (lines 27-29).
load_excel_raises(exists, readOk) == FALSE

\* Mutant: the new batch is concatenated before the existing rows.
MergeNewFirst(new_posts, loaded) ==
    IF new_posts = <<>> THEN loaded
    ELSE IF loaded = <<>> THEN new_posts
    ELSE deduplicate_posts(new_posts \o loaded, DEDUP_KEYS)

\* merge_with_existing_data(new_posts, existing_path), given what
\* load_excel(existing_path) returns.
merge_with_existing_data(new_posts, loaded) ==
    IF new_posts = <<>> THEN loaded
    ELSE IF loaded = <<>> THEN new_posts
    ELSE deduplicate_posts(loaded \o new_posts, DEDUP_KEYS)

\* backup_existing_data names the backup by datetime.now() to the second; a
\* run that saves scrapes or labels first, so each backup falls in a later
\* second than the one before.
TimestampAfter(last) == last + 1

\* shutil.copy2(path, backup_path) succeeds only when <parent>/backups is
\* there; nothing in the repository creates that directory.
BackupCopies(dirExists) == dirExists

\* ------------------------------------------------------------ transform.py
\* A raw post, as far as this model follows it: the id and the text the
\* normalizer maps to post_id and content, and whether its date passes
\* filter_recent_posts.
RawPost(id, text, isRecent) == [post_id |-> id, content |-> text, recent |-> isRecent]

\* Posts inside the DAYS_BACK window: two posts whose texts differ only in
\* case, and one without text.
RecentPosts == { RawPost("A", "x", TRUE), RawPost("B", "X", TRUE), RawPost("B", "", TRUE) }

\* What one scrape returns: up to MaxBatch recent posts, or only a post older
\* than the window.
Batches == SeqsUpTo(RecentPosts, MaxBatch) \cup { <<RawPost("A", "x", FALSE)>> }

\* The row the normalizer builds from a raw post: the enrichment columns are
\* missing until the labeling step fills them.
NewRow(id, text) ==
    [post_id |-> id, content |-> text, post_summary |-> Null,
     cluster_1 |-> Null, cluster_2 |-> Null, cluster_3 |-> Null]

filter_recent_posts(posts) == SelectSeq(posts, LAMBDA p : p.recent)

process_social_media_data(posts) ==
    IF posts = <<>> THEN <<>>
    ELSE LET recent == filter_recent_posts(posts)
         IN [i \in DOMAIN recent |-> NewRow(recent[i].post_id, recent[i].content)]

\* ------------------------------------------------------------ gpt_labeler.py
\* compact_text(x if isinstance(x, str) else ""): a missing content is "".
compact_text(cell) == IF cell = Null THEN "" ELSE cell

\* normalize_text(s).lower()
NormLower(text) == IF text = "X" THEN "x" ELSE text

\* process_post_with_gpt(content) when both model calls succeed.
GptLabels(text) ==
    CASE text = "x" -> <<"about x", "Events and Experiences", Null, Null>>
      [] OTHER      -> <<"about X", "Events and Experiences", "Food and Dining Specials", Null>>

\* generate_summary and generate_clusters when the model call fails.
FailedLabels == <<"NONE", "NONE", Null, Null>>

WithLabels(row, t) ==
    [row EXCEPT !.post_summary = t[1], !.cluster_1 = t[2],
                !.cluster_2 = t[3], !.cluster_3 = t[4]]

Labels(row) == <<row.post_summary, row.cluster_1, row.cluster_2, row.cluster_3>>

\* Lines 232-244: the rows label_posts_with_gpt keeps: content compacted, rows
\* with empty content removed, then one row per normalized content.
LabelCandidates(table) ==
    LET compacted == [i \in DOMAIN table |->
                        [table[i] EXCEPT !.content = compact_text(table[i].content)]]
        nonEmpty == SelectSeq(compacted, LAMBDA r : r.content # "")
        normed == [i \in DOMAIN nonEmpty |->
                     [c \in DOMAIN nonEmpty[i] \cup {"__norm__"} |->
                        IF c = "__norm__" THEN NormLower(nonEmpty[i].content)
                        ELSE nonEmpty[i][c]]]
        unique == DropDuplicates(normed, <<"__norm__">>)
    IN [i \in DOMAIN unique |-> [c \in DOMAIN unique[i] \ {"__norm__"} |-> unique[i][c]]]

\* label_posts_with_gpt(df), the model calls failing for the rows in failed.
label_posts_with_gpt(table, failed) ==
    LET kept == LabelCandidates(table)
    IN [i \in DOMAIN kept |->
          WithLabels(kept[i], IF i \in failed THEN FailedLabels
                              ELSE GptLabels(kept[i].content))]

PostIds(table) == {table[i].post_id : i \in DOMAIN table}

\* ------------------------------------------------------------ entry points
PipelineRuns == {"main", "facebook_only", "snapshot"}
LabelingRuns == {"main", "snapshot", "process_existing"}
Entries == PipelineRuns \cup
           {"process_existing", "process_existing_data_main", "append_new_data_to_master"}

NoLocals ==
    /\ all_posts = <<>>
    /\ df = <<>>
    /\ existing_posts = <<>>
    /\ combined_df = <<>>
    /\ submitted = {}
    /\ fs_ops = <<>>
    /\ replaced = <<>>
    /\ raised = ""

NoDedup ==
    /\ dd_table = <<>>
    /\ dd_keys = <<>>
    /\ dd_once = <<>>
    /\ dd_twice = <<>>
    /\ dd_pc = 0
    /\ dd_raised = FALSE

NoSave ==
    /\ sv_pc = "idle"
    /\ sv_df = <<>>
    /\ sv_exists = FALSE
    /\ sv_complete = TRUE
    /\ sv_rows = <<>>
    /\ sv_prev = [exists |-> FALSE, rows |-> <<>>]
    /\ sv_observed = [by |-> "none", ok |-> TRUE, rows |-> <<>>]

NoTransform ==
    /\ tr_pc = "idle"
    /\ tr_posts = <<>>
    /\ tr_df = [columns |-> {}, rows |-> <<>>]
    /\ tr_in = [columns |-> {}, rows |-> <<>>]
    /\ tr_file = <<>>
    /\ tr_loaded = <<>>

NoWindows ==
    /\ wn_pc = "idle"
    /\ wn_caller = "none"
    /\ wn_today = 0
    /\ wn_custom = <<>>
    /\ wn_posts = {}
    /\ wn_loaded = <<>>
    /\ wn_stats = <<>>
    /\ wn_tab = <<>>

NoLabeling ==
    /\ lb_pc = "idle"
    /\ lb_in = <<>>
    /\ lb_df = <<>>
    /\ lb_pending = {}
    /\ lb_tasks = <<>>
    /\ lb_lists = <<>>
    /\ lb_out = <<>>

NoSummaries ==
    /\ sm_pc = "none"
    /\ sm_exists = FALSE
    /\ sm_complete = TRUE
    /\ sm_rows = <<>>
    /\ sm_today = 0
    /\ sm_new = <<>>
    /\ sm_combined = <<>>
    /\ sm_before = <<>>
    /\ sm_initial = <<>>
    /\ sm_started = 0
    /\ sm_done = 0

NoMainRun ==
    /\ mn_pc = "none"
    /\ mn_entry = "none"
    /\ mn_labeling = FALSE
    /\ mn_posts = <<>>
    /\ mn_processed = <<>>
    /\ mn_df = <<>>
    /\ mn_combined = <<>>
    /\ mn_disk = <<>>
    /\ mn_before = <<>>
    /\ mn_steps = <<>>

NoWaiting ==
    /\ wt_pc = "none"
    /\ wt_max = 0
    /\ wt_elapsed = 0
    /\ wt_polls = 0
    /\ wt_seen = <<>>
    /\ wt_result = "pending"

\* The specifications of single functions that are not running.
NoMore ==
    /\ NoLabeling
    /\ NoSummaries
    /\ NoMainRun
    /\ NoWaiting

Init ==
    /\ fileExists = FALSE
    /\ fileRows = <<>>
    /\ backupsDirExists \in BOOLEAN
    /\ backups = <<>>
    /\ clock = 0
    /\ runs = 0
    /\ pc = "idle"
    /\ entry = "none"
    /\ ENABLE_GPT_LABELING = TRUE
    /\ NoLocals
    /\ NoDedup
    /\ NoSave
    /\ NoTransform
    /\ NoWindows
    /\ NoMore

\* A process starts one of the entry points.  config.ENABLE_GPT_LABELING is
\* True unless edited, and main / continue_from_snapshot turn it off when no
\* OPENAI_API_KEY is set; scrape_facebook_only and the two scripts that stop
\* before labeling never read it.
StartRun ==
    /\ pc = "idle"
    /\ runs < MaxRuns
    /\ \E e \in Entries :
         /\ entry' = e
         /\ ENABLE_GPT_LABELING' \in (IF e \in LabelingRuns THEN BOOLEAN ELSE {TRUE})
    /\ runs' = runs + 1
    /\ pc' = "start"
    /\ UNCHANGED <<fsVars, localVars, unitVars>>

\* pipeline.py main 40-46, scrape_facebook_only 104-106,
\* continue_from_snapshot 135-155: no posts ends the run.
Scrape ==
    /\ pc = "start"
    /\ entry \in PipelineRuns
    /\ \E posts \in Batches :
         /\ all_posts' = posts
         /\ pc' = IF posts = <<>> THEN "returned" ELSE "transform"
    /\ UNCHANGED <<fsVars, runs, entry, ENABLE_GPT_LABELING, unitVars,
                   df, existing_posts, combined_df, submitted, fs_ops, replaced, raised>>

\* df = process_social_media_data(posts), the raw list is not read again;
\* main and continue_from_snapshot return on an empty table,
\* scrape_facebook_only goes on to the merge.
Transform ==
    /\ pc = "transform"
    /\ df' = process_social_media_data(all_posts)
    /\ all_posts' = <<>>
    /\ pc' = IF entry = "facebook_only" THEN "merge"
             ELSE IF df' = <<>> THEN "returned" ELSE "label"
    /\ UNCHANGED <<fsVars, runs, entry, ENABLE_GPT_LABELING, unitVars,
                   existing_posts, combined_df, submitted, fs_ops, replaced, raised>>

\* Step 3 of main and continue_from_snapshot, and the labeling of
\* process_existing_data: df = label_posts_with_gpt(df, ...) when enabled.
Label ==
    /\ pc = "label"
    /\ IF ENABLE_GPT_LABELING /\ df # <<>>
       THEN \E failed \in SUBSET (1 .. Len(LabelCandidates(df))) :
              /\ df' = label_posts_with_gpt(df, failed)
              /\ submitted' = PostIds(LabelCandidates(df))
       ELSE UNCHANGED <<df, submitted>>
    /\ pc' = IF entry = "process_existing" THEN "backup" ELSE "merge"
    /\ UNCHANGED <<fsVars, runs, entry, ENABLE_GPT_LABELING, unitVars,
                   all_posts, existing_posts, combined_df, fs_ops, replaced, raised>>

\* combined_df = merge_with_existing_data(df, master_path); the read of the
\* existing file may raise inside load_excel, which then returns no rows.
Merge ==
    /\ pc = "merge"
    /\ \E readOk \in (IF fileExists THEN BOOLEAN ELSE {TRUE}) :
         IF load_excel_raises(fileExists, readOk)
         THEN /\ raised' = "load_excel"
              /\ pc' = "raised"
              /\ UNCHANGED <<existing_posts, combined_df>>
         ELSE /\ existing_posts' = load_excel(fileExists, fileRows, readOk)
              /\ combined_df' = merge_with_existing_data(df, existing_posts')
              /\ pc' = "backup"
              /\ UNCHANGED raised
    /\ UNCHANGED <<fsVars, runs, entry, ENABLE_GPT_LABELING, unitVars,
                   all_posts, df, submitted, fs_ops, replaced>>

\* The table save_with_backup is called with: combined_df in the runs that
\* merge, df in process_existing_data.
SaveArg == IF entry = "process_existing" THEN df ELSE combined_df

\* Mutant: save_with_backup goes to save_excel without the backup step.
BackupNotCalled ==
    /\ pc = "backup"
    /\ pc' = "save"
    /\ UNCHANGED <<fsVars, runs, entry, ENABLE_GPT_LABELING, unitVars, localVars>>

\* backup_existing_data(path): nothing when there is no file; else a copy
\* named by the current second, its failure printed and swallowed.
backup_existing_data ==
    /\ pc = "backup"
    /\ IF ~fileExists
       THEN UNCHANGED <<backups, clock, fs_ops>>
       ELSE /\ clock' = TimestampAfter(clock)
            /\ IF BackupCopies(backupsDirExists)
                 THEN /\ backups' = (clock' :> fileRows) @@ backups
                      /\ fs_ops' = Append(fs_ops, "backup_copied")
                 ELSE /\ UNCHANGED backups
                      /\ fs_ops' = Append(fs_ops, "backup_failed")
    /\ pc' = "save"
    /\ UNCHANGED <<fileExists, fileRows, backupsDirExists, runs, entry,
                   ENABLE_GPT_LABELING, unitVars, all_posts, df, existing_posts,
                   combined_df, submitted, replaced, raised>>

\* save_excel(df, path): the file at path now holds the table.
save_excel ==
    /\ pc = "save"
    /\ replaced' = fileRows
    /\ fs_ops' = Append(fs_ops, IF fileExists THEN "overwrite" ELSE "create")
    /\ fileExists' = TRUE
    /\ fileRows' = ToExcel(SaveArg)
    /\ pc' = "finish"
    /\ UNCHANGED <<backupsDirExists, backups, clock, runs, entry,
                   ENABLE_GPT_LABELING, unitVars, all_posts, df, existing_posts,
                   combined_df, submitted, raised>>

\* pipeline.process_existing_data 211-230: no file ends the run; the file is
\* read with pd.read_excel, whose error is not caught; the table is labeled
\* and saved only when labeling is enabled and the table has rows.
process_existing_data ==
    /\ pc = "start"
    /\ entry = "process_existing"
    /\ IF ~fileExists
       THEN /\ pc' = "returned"
            /\ UNCHANGED <<df, raised>>
       ELSE \E readOk \in BOOLEAN :
              IF readOk
              THEN /\ df' = fileRows
                   /\ pc' = IF ENABLE_GPT_LABELING /\ fileRows # <<>>
                            THEN "label" ELSE "finish"
                   /\ UNCHANGED raised
              ELSE /\ raised' = "read_excel"
                   /\ pc' = "raised"
                   /\ UNCHANGED df
    /\ UNCHANGED <<fsVars, runs, entry, ENABLE_GPT_LABELING, unitVars,
                   all_posts, existing_posts, combined_df, submitted, fs_ops, replaced>>

\* process_existing_data.py main: the posts read (or the sample posts) are
\* filtered to the first days of August; none left ends the run; otherwise
\* line 226 imports standardize_linkedin_data, which transform.py does not
\* define, and the ImportError ends the run before anything is saved.
process_existing_data_main ==
    /\ pc = "start"
    /\ entry = "process_existing_data_main"
    /\ \E posts \in Batches :
         IF filter_recent_posts(posts) = <<>>
         THEN /\ pc' = "returned"
              /\ UNCHANGED raised
         ELSE /\ pc' = "raised"
              /\ raised' = "ImportError"
    /\ UNCHANGED <<fsVars, runs, entry, ENABLE_GPT_LABELING, unitVars,
                   all_posts, df, existing_posts, combined_df, submitted, fs_ops, replaced>>

\* workflow_manager.append_new_data_to_master: a missing input file returns
\* False; otherwise load_excel is handed a str (line 42) or a DataFrame (the
\* swapped arguments of line 52), path.exists() raises AttributeError, and
\* the run ends before labeling and before save_excel (line 88).
append_new_data_to_master ==
    /\ pc = "start"
    /\ entry = "append_new_data_to_master"
    /\ \E newFileExists \in BOOLEAN :
         IF newFileExists
         THEN /\ pc' = "raised"
              /\ raised' = "AttributeError"
         ELSE /\ pc' = "returned"
              /\ UNCHANGED raised
    /\ UNCHANGED <<fsVars, runs, entry, ENABLE_GPT_LABELING, unitVars,
                   all_posts, df, existing_posts, combined_df, submitted, fs_ops, replaced>>

\* The process ends; its memory is gone.
Exit ==
    /\ pc \in {"finish", "returned", "raised"}
    /\ pc' = "idle"
    /\ entry' = "none"
    /\ ENABLE_GPT_LABELING' = TRUE
    /\ all_posts' = <<>>
    /\ df' = <<>>
    /\ existing_posts' = <<>>
    /\ combined_df' = <<>>
    /\ submitted' = {}
    /\ fs_ops' = <<>>
    /\ replaced' = <<>>
    /\ raised' = ""
    /\ UNCHANGED <<fsVars, runs, unitVars>>

Next ==
    \/ StartRun
    \/ Scrape
    \/ Transform
    \/ Label
    \/ Merge
    \/ backup_existing_data
    \/ save_excel
    \/ process_existing_data
    \/ process_existing_data_main
    \/ append_new_data_to_master
    \/ Exit

Spec == Init /\ [][Next]_vars

\* ---------------------------------------------------- deduplicate_posts alone
\* Tables of up to MaxLen rows over two columns, and the key lists tried on
\* them; "brand" is a key column the tables do not have.
DedupRows == [post_id : {"1", "2", Null}, platform : {"facebook", "linkedin"}]
DedupTables == SeqsUpTo(DedupRows, MaxLen)
DedupKeyLists == { <<"post_id">>, <<"platform">>, <<"post_id", "platform">>, <<"brand">> }

InitDedup ==
    /\ fileExists = FALSE
    /\ fileRows = <<>>
    /\ backupsDirExists = FALSE
    /\ backups = <<>>
    /\ clock = 0
    /\ runs = 0
    /\ pc = "idle"
    /\ entry = "none"
    /\ ENABLE_GPT_LABELING = TRUE
    /\ NoLocals
    /\ NoSave
    /\ NoTransform
    /\ NoWindows
    /\ NoMore
    /\ dd_table \in DedupTables
    /\ dd_keys \in DedupKeyLists
    /\ dd_once = <<>>
    /\ dd_twice = <<>>
    /\ dd_pc = 0
    /\ dd_raised = FALSE

DedupOnce ==
    /\ dd_pc = 0
    /\ IF deduplicate_posts_raises(dd_table, dd_keys)
       THEN dd_raised' = TRUE /\ UNCHANGED dd_once
       ELSE dd_once' = deduplicate_posts(dd_table, dd_keys) /\ UNCHANGED dd_raised
    /\ dd_pc' = 1
    /\ UNCHANGED <<fsVars, runs, pc, entry, ENABLE_GPT_LABELING, localVars,
                   svVars, trVars, wnVars, moreVars, dd_table, dd_keys, dd_twice>>

DedupTwice ==
    /\ dd_pc = 1
    /\ ~dd_raised
    /\ IF deduplicate_posts_raises(dd_once, dd_keys)
       THEN dd_raised' = TRUE /\ UNCHANGED dd_twice
       ELSE dd_twice' = deduplicate_posts(dd_once, dd_keys) /\ UNCHANGED dd_raised
    /\ dd_pc' = 2
    /\ UNCHANGED <<fsVars, runs, pc, entry, ENABLE_GPT_LABELING, localVars,
                   svVars, trVars, wnVars, moreVars, dd_table, dd_keys, dd_once>>

NextDedup == DedupOnce \/ DedupTwice

SpecDedup == InitDedup /\ [][NextDedup]_vars

\* ------------------------------------------------------- save_excel alone
\* No entry point is running: the state of the pipeline between runs.
PipelineIdle ==
    /\ fileExists = FALSE
    /\ fileRows = <<>>
    /\ backupsDirExists = FALSE
    /\ backups = <<>>
    /\ clock = 0
    /\ runs = 0
    /\ pc = "idle"
    /\ entry = "none"
    /\ ENABLE_GPT_LABELING = TRUE
    /\ NoLocals

\* The tables saved and stored in SpecSave.
SaveTables == SeqsUpTo({NewRow("A", "x"), NewRow("B", "X")}, MaxBatch)

\* save_excel(df, path) is entered with some file, or none, at the path.
\* df.to_excel(path) writes to the path itself: it opens the path for
\* writing, which empties the file, and writes the workbook when it closes
\* the writer.  Other processes (the dashboard, another run) may read the
\* path at any moment in between.
InitSave ==
    /\ PipelineIdle
    /\ NoDedup
    /\ NoTransform
    /\ NoWindows
    /\ NoMore
    /\ sv_pc = "to_excel"
    /\ sv_df \in SaveTables
    /\ sv_exists \in BOOLEAN
    /\ sv_complete = TRUE
    /\ sv_rows \in (IF sv_exists THEN SaveTables ELSE {<<>>})
    /\ sv_prev = [exists |-> sv_exists, rows |-> sv_rows]
    /\ sv_observed = [by |-> "none", ok |-> TRUE, rows |-> <<>>]

\* to_excel opens the path for writing: refused (PermissionError) with the
\* file untouched, or the file now exists and is empty.
to_excel_open ==
    /\ sv_pc = "to_excel"
    /\ \E opened \in BOOLEAN :
         IF opened
         THEN /\ sv_exists' = TRUE
              /\ sv_complete' = FALSE
              /\ sv_rows' = <<>>
              /\ sv_pc' = "writing"
         ELSE /\ sv_pc' = "except"
              /\ UNCHANGED <<sv_exists, sv_complete, sv_rows>>
    /\ UNCHANGED <<runVars, ddVars, trVars, wnVars, moreVars, sv_df, sv_prev, sv_observed>>

\* to_excel writes the workbook and closes it, or runs out of disk space and
\* leaves what it had written.
to_excel_write ==
    /\ sv_pc = "writing"
    /\ \E written \in BOOLEAN :
         IF written
         THEN /\ sv_complete' = TRUE
              /\ sv_rows' = ToExcel(sv_df)
              /\ sv_pc' = "saved"
         ELSE /\ sv_pc' = "except"
              /\ UNCHANGED <<sv_complete, sv_rows>>
    /\ UNCHANGED <<runVars, ddVars, trVars, wnVars, moreVars, sv_df, sv_exists, sv_prev, sv_observed>>

\* The except branch of save_excel prints and re-raises; save_with_backup
\* has no handler, so its caller gets the exception.
save_excel_raise ==
    /\ sv_pc = "except"
    /\ sv_pc' = "raised"
    /\ UNCHANGED <<runVars, ddVars, trVars, wnVars, moreVars, sv_df, sv_exists, sv_complete, sv_rows,
                   sv_prev, sv_observed>>

\* Another process calls load_excel(path): a file that is not a complete
\* workbook makes read_excel raise, which load_excel turns into no rows.
ReaderLoadExcel ==
    /\ sv_pc \in {"to_excel", "writing", "saved", "except", "raised"}
    /\ sv_observed' = [by |-> "load_excel", ok |-> TRUE,
                        rows |-> load_excel(sv_exists, sv_rows, sv_complete)]
    /\ sv_observed' # sv_observed
    /\ UNCHANGED <<runVars, ddVars, trVars, wnVars, moreVars, sv_pc, sv_df, sv_exists, sv_complete,
                   sv_rows, sv_prev>>

\* The dashboard's load_data reads the path with pd.read_excel and no
\* handler: a missing or incomplete file is an error.
ReaderLoadData ==
    /\ sv_pc \in {"to_excel", "writing", "saved", "except", "raised"}
    /\ sv_observed' = IF sv_exists /\ sv_complete
                      THEN [by |-> "load_data", ok |-> TRUE, rows |-> sv_rows]
                      ELSE [by |-> "load_data", ok |-> FALSE, rows |-> <<>>]
    /\ sv_observed' # sv_observed
    /\ UNCHANGED <<runVars, ddVars, trVars, wnVars, moreVars, sv_pc, sv_df, sv_exists, sv_complete,
                   sv_rows, sv_prev>>

NextSave ==
    \/ to_excel_open
    \/ to_excel_write
    \/ save_excel_raise
    \/ ReaderLoadExcel
    \/ ReaderLoadData

SpecSave == InitSave /\ [][NextSave]_vars

\* ------------------------------------------- process_social_media_data alone
\* A DataFrame with its columns: the rows are records over the columns.  An
\* empty DataFrame can still have columns.
Frame(cols, rows) == [columns |-> cols, rows |-> rows]
EmptyFrame == Frame({}, <<>>)

\* A scraped post: a dict of scalar fields and of nested dicts.
ScrapedPost(flat, nested) == [flat |-> flat, nested |-> nested]
NoNested == [k \in {} |-> <<>>]

\* json_normalize(sep="/"): a nested dict becomes one column per leaf, named
\* parent/child.
FlatColumns(post) ==
    DOMAIN post.flat \cup
    UNION { {k \o "/" \o c : c \in DOMAIN post.nested[k]} : k \in DOMAIN post.nested }
FlatCell(post, col) ==
    IF col \in DOMAIN post.flat THEN post.flat[col]
    ELSE IF \E k \in DOMAIN post.nested : \E c \in DOMAIN post.nested[k] : k \o "/" \o c = col
         THEN LET k == CHOOSE k \in DOMAIN post.nested :
                          \E c \in DOMAIN post.nested[k] : k \o "/" \o c = col
                  c == CHOOSE c \in DOMAIN post.nested[k] : k \o "/" \o c = col
              IN post.nested[k][c]
         ELSE Missing(col)

\* flatten_posts: one column per field of any post, a missing cell where a
\* post lacks the field.
flatten_posts(posts) ==
    IF posts = <<>> THEN EmptyFrame
    ELSE LET cols == UNION {FlatColumns(posts[i]) : i \in DOMAIN posts}
         IN Frame(cols, [i \in DOMAIN posts |-> [c \in cols |-> FlatCell(posts[i], c)]])

\* The rows of a DataFrame as a set.
RowSet(frame) == {frame.rows[i] : i \in DOMAIN frame.rows}

\* df[col] = value[row] for every row.
WithColumn(frame, col, value) ==
    Frame(frame.columns \cup {col},
          [i \in DOMAIN frame.rows |->
              [c \in frame.columns \cup {col} |->
                  IF c = col THEN value[frame.rows[i]] ELSE frame.rows[i][c]]])

\* df[cols]: only these columns.
Project(frame, cols) ==
    Frame(cols, [i \in DOMAIN frame.rows |-> [c \in cols |-> frame.rows[i][c]]])

\* df[mask]: only the rows whose mask is true.
Where(frame, mask) == Frame(frame.columns, SelectSeq(frame.rows, LAMBDA row : mask[row]))

\* The first candidate that is a column of the DataFrame, 0 when none is.
FirstCandidateColumn(frame, candidates) ==
    IF \E j \in DOMAIN candidates : candidates[j] \in frame.columns
    THEN CHOOSE j \in DOMAIN candidates :
            /\ candidates[j] \in frame.columns
            /\ \A h \in 1 .. (j - 1) : candidates[h] \notin frame.columns
    ELSE 0

\* One mapping of the loop over field_mappings: cur is the DataFrame the
\* iteration starts from.
ApplyFieldMapping(frame, m) ==
    LET standard_col == field_mappings[m].col
        candidates == field_mappings[m].candidates
    IN CHOOSE out \in
           { LET j == FirstCandidateColumn(cur, candidates)
                 Copied(row) == row[candidates[j]]
                 Absent(row) == Missing(standard_col)
             IN IF standard_col \in cur.columns THEN cur
                ELSE IF j # 0
                     THEN WithColumn(cur, standard_col, [row \in RowSet(cur) |-> Copied(row)])
                     ELSE WithColumn(cur, standard_col, [row \in RowSet(cur) |-> Absent(row)])
             : cur \in {frame} } : TRUE

\* The loop over field_mappings, from mapping m on.
RECURSIVE ApplyFieldMappings(_, _)
ApplyFieldMappings(frame, m) ==
    IF m > Len(field_mappings) THEN frame
    ELSE ApplyFieldMappings(ApplyFieldMapping(frame, m), m + 1)

standardize_facebook_data(frame) == ApplyFieldMappings(frame, 1)

\* Two instants as the provider writes them, one inside the window of
\* filter_recent_posts and one before it.
RecentInstant == "2025-10-05T10:00:00.000Z"
OldInstant == "2025-01-05T10:00:00.000Z"

\* pd.to_datetime(cell, errors="coerce").strftime("%Y-%m-%d %H:%M:%S").
FormatDate(cell) ==
    CASE cell \in {RecentInstant, "2025-10-05 10:00:00"} -> "2025-10-05 10:00:00"
      [] cell \in {OldInstant, "2025-01-05 10:00:00"} -> "2025-01-05 10:00:00"
      [] OTHER -> Null

\* pd.to_numeric(cell, errors="coerce") then fillna(0).
ToNumericOrZero(cell) == IF cell = NaN THEN 0 ELSE cell

\* cur[col] = value[row] unless the column exists.
EnsureColumn(frame, col, value) ==
    IF col \in frame.columns THEN frame ELSE WithColumn(frame, col, value)

\* Mutant: no column is dropped.
KeepAllColumns(frame) == frame

\* cur = cur[existing_essential]: only the essential columns survive.
KeepEssential(frame) == Project(frame, essential_columns \cap frame.columns)

\* The statements of ensure_standard_columns in order, k being the position
\* of the statement and cur the DataFrame it starts from.
EnsureStandardStep(frame, k) ==
    LET Facebook(row) == "facebook"
        NoString(row) == Null
        Zero(row) == 0
        PostedDate(row) == FormatDate(row["date_posted"])
        CreatedDate(row) == FormatDate(row["created_date"])
        PageName(row) == row["page_name"]
        NumComments(row) == row["num_comments"]
        NumShares(row) == row["num_shares"]
        Likes(row) == ToNumericOrZero(row["likes"])
        Comments(row) == ToNumericOrZero(row["comments"])
        Shares(row) == ToNumericOrZero(row["shares"])
        Weighted(row) == row["likes"] * 1 + row["comments"] * 3 + row["shares"] * 5
    IN CHOOSE out \in
           { CASE k = 1 -> KeepEssential(cur)
               [] k = 2 -> EnsureColumn(cur, "platform", [row \in RowSet(cur) |-> Facebook(row)])
               [] k = 3 -> EnsureColumn(cur, "post_id", [row \in RowSet(cur) |-> NoString(row)])
               [] k = 4 ->
                    IF "date_posted" \in cur.columns
                    THEN WithColumn(cur, "created_date", [row \in RowSet(cur) |-> PostedDate(row)])
                    ELSE IF "created_date" \in cur.columns
                    THEN WithColumn(cur, "created_date", [row \in RowSet(cur) |-> CreatedDate(row)])
                    ELSE WithColumn(cur, "created_date", [row \in RowSet(cur) |-> NoString(row)])
               [] k = 5 ->
                    IF "page_name" \in cur.columns
                    THEN EnsureColumn(cur, "brand", [row \in RowSet(cur) |-> PageName(row)])
                    ELSE EnsureColumn(cur, "brand", [row \in RowSet(cur) |-> NoString(row)])
               [] k = 6 -> EnsureColumn(cur, "content", [row \in RowSet(cur) |-> NoString(row)])
               [] k = 7 -> EnsureColumn(cur, "source_url", [row \in RowSet(cur) |-> NoString(row)])
               [] k = 8 ->
                    IF "num_comments" \in cur.columns
                    THEN EnsureColumn(cur, "comments", [row \in RowSet(cur) |-> NumComments(row)])
                    ELSE cur
               [] k = 9 ->
                    IF "num_shares" \in cur.columns
                    THEN EnsureColumn(cur, "shares", [row \in RowSet(cur) |-> NumShares(row)])
                    ELSE cur
               [] k = 10 ->
                    IF "likes" \in cur.columns
                    THEN WithColumn(cur, "likes", [row \in RowSet(cur) |-> Likes(row)])
                    ELSE WithColumn(cur, "likes", [row \in RowSet(cur) |-> Zero(row)])
               [] k = 11 ->
                    IF "comments" \in cur.columns
                    THEN WithColumn(cur, "comments", [row \in RowSet(cur) |-> Comments(row)])
                    ELSE WithColumn(cur, "comments", [row \in RowSet(cur) |-> Zero(row)])
               [] k = 12 ->
                    IF "shares" \in cur.columns
                    THEN WithColumn(cur, "shares", [row \in RowSet(cur) |-> Shares(row)])
                    ELSE WithColumn(cur, "shares", [row \in RowSet(cur) |-> Zero(row)])
               [] k = 13 -> EnsureColumn(cur, "total_engagement", [row \in RowSet(cur) |-> Weighted(row)])
               [] OTHER ->
                    Frame(cur.columns,
                          [i \in DOMAIN cur.rows |->
                              [c \in cur.columns |->
                                  IF c \in {"platform", "post_id", "created_date", "brand", "content", "source_url"}
                                  THEN AsString(cur.rows[i][c]) ELSE cur.rows[i][c]]])
             : cur \in {frame} } : TRUE

\* The fourteen statements, from statement k on.
RECURSIVE EnsureStandardSteps(_, _)
EnsureStandardSteps(frame, k) ==
    IF k > 14 THEN frame
    ELSE EnsureStandardSteps(EnsureStandardStep(frame, k), k + 1)

ensure_standard_columns(frame) == EnsureStandardSteps(frame, 1)

normalize_brand_names(frame) ==
    LET PageName(row) == row["page_name"]
        Unknown(row) == "Unknown"
    IN IF "page_name" \in frame.columns THEN WithColumn(frame, "brand", [row \in RowSet(frame) |-> PageName(row)])
       ELSE IF "brand" \in frame.columns THEN frame
       ELSE WithColumn(frame, "brand", [row \in RowSet(frame) |-> Unknown(row)])

\* clean_text: a missing text becomes "", white space is collapsed and
\* stripped.
clean_text(cell) ==
    CASE cell = Null -> ""
      [] cell = " hi " -> "hi"
      [] OTHER -> cell

clean_content(frame) ==
    LET Cleaned(row) == clean_text(row["content"])
    IN IF "content" \notin frame.columns THEN frame
       ELSE WithColumn(frame, "content", [row \in RowSet(frame) |-> Cleaned(row)])

\* calculate_engagement_metrics: total_engagement is set again from the
\* three counts; engagement_rate, in hundredths of a percent, when there is
\* a reach column.
calculate_engagement_metrics(frame) ==
    LET Total(row) == row["likes"] + row["comments"] + row["shares"]
        Rate(row) == IF row["reach"] > 0 /\ row["total_engagement"] # NaN
                     THEN (row["total_engagement"] * 10000) \div row["reach"] ELSE 0
        f1 == IF {"likes", "comments", "shares"} \subseteq frame.columns
              THEN WithColumn(frame, "total_engagement", [row \in RowSet(frame) |-> Total(row)]) ELSE frame
    IN IF {"reach", "total_engagement"} \subseteq f1.columns
       THEN WithColumn(f1, "engagement_rate", [row \in RowSet(f1) |-> Rate(row)]) ELSE f1

\* filter_recent_posts on a DataFrame: rows whose created_date is inside the
\* window; a date that does not parse compares false.
RecentRows(frame) ==
    LET InWindow(row) == FormatDate(row["created_date"]) = "2025-10-05 10:00:00"
    IN IF "created_date" \notin frame.columns THEN frame ELSE Where(frame, [row \in RowSet(frame) |-> InWindow(row)])

\* Step 2 of process_social_media_data: with a platform column and at least
\* one facebook row, the facebook rows alone are standardized and kept.
IsFacebook(row) == row["platform"] = "facebook"
StandardizeApplies(frame) ==
    "platform" \in frame.columns /\ Where(frame, [row \in RowSet(frame) |-> IsFacebook(row)]).rows # <<>>

\* The posts a scrape can return: the provider's usual fields, the aliases
\* of standardize_facebook_data (flat and nested), explicit nulls, a post of
\* another platform and a post without a platform field.
ScrapedPosts == {
    ScrapedPost([post_id |-> "1", content |-> "hi", page_name |-> "Akropolis", likes |-> 10,
                 num_comments |-> 2, num_shares |-> 1, date_posted |-> RecentInstant,
                 platform |-> "facebook", url |-> "u1"], NoNested),
    ScrapedPost([post_id |-> "2", content |-> " hi ", page_name |-> "Akropolis", likes |-> NaN,
                 num_comments |-> 0, num_shares |-> 4, date_posted |-> OldInstant,
                 platform |-> "facebook", url |-> "u2"], NoNested),
    ScrapedPost([id |-> "3", message |-> "hi", created_time |-> RecentInstant,
                 platform |-> "facebook"], [likes |-> [count |-> 10]]),
    ScrapedPost([id |-> "4", message |-> Null, text |-> "yo", timestamp |-> RecentInstant,
                 platform |-> "facebook", attachments |-> "photo"], NoNested),
    ScrapedPost([id |-> "5", post_id |-> "1", page_name |-> "Ozas", reach |-> 50,
                 date_posted |-> RecentInstant, platform |-> "facebook"], NoNested),
    ScrapedPost([id |-> "6", text |-> "job", platform |-> "linkedin"], NoNested),
    ScrapedPost([post_id |-> "7", content |-> "hi", likes |-> 3, num_comments |-> 1,
                 num_shares |-> 1, date_posted |-> RecentInstant], NoNested),
    ScrapedPost([post_id |-> Null, content |-> Null, likes |-> 1, total_engagement |-> 9,
                 date_posted |-> RecentInstant, platform |-> "facebook"], NoNested) }

InitTransform ==
    /\ PipelineIdle
    /\ NoDedup
    /\ NoSave
    /\ NoWindows
    /\ NoMore
    /\ tr_pc = "flatten"
    /\ tr_posts \in SeqsUpTo(ScrapedPosts, MaxBatch)
    /\ tr_df = EmptyFrame
    /\ tr_in = EmptyFrame
    /\ tr_file = <<>>
    /\ tr_loaded = <<>>

\* `if not posts: return pd.DataFrame()`, else step 1.
TrFlatten ==
    /\ tr_pc = "flatten"
    /\ tr_df' = flatten_posts(tr_posts)
    /\ tr_pc' = IF tr_posts = <<>> THEN "done" ELSE "standardize"
    /\ UNCHANGED <<runVars, ddVars, svVars, wnVars, moreVars, tr_posts, tr_in, tr_file, tr_loaded>>

TrStandardize ==
    /\ tr_pc = "standardize"
    /\ IF StandardizeApplies(tr_df)
       THEN /\ tr_in' = Where(tr_df, [row \in RowSet(tr_df) |-> IsFacebook(row)])
            /\ tr_df' = standardize_facebook_data(tr_in')
       ELSE UNCHANGED <<tr_df, tr_in>>
    /\ tr_pc' = "ensure"
    /\ UNCHANGED <<runVars, ddVars, svVars, wnVars, moreVars, tr_posts, tr_file, tr_loaded>>

TrEnsureColumns ==
    /\ tr_pc = "ensure"
    /\ tr_df' = ensure_standard_columns(tr_df)
    /\ tr_pc' = "brands"
    /\ UNCHANGED <<runVars, ddVars, svVars, wnVars, moreVars, tr_posts, tr_in, tr_file, tr_loaded>>

TrNormalizeBrands ==
    /\ tr_pc = "brands"
    /\ tr_df' = normalize_brand_names(tr_df)
    /\ tr_pc' = "clean"
    /\ UNCHANGED <<runVars, ddVars, svVars, wnVars, moreVars, tr_posts, tr_in, tr_file, tr_loaded>>

TrCleanContent ==
    /\ tr_pc = "clean"
    /\ tr_df' = clean_content(tr_df)
    /\ tr_pc' = "engagement"
    /\ UNCHANGED <<runVars, ddVars, svVars, wnVars, moreVars, tr_posts, tr_in, tr_file, tr_loaded>>

TrEngagement ==
    /\ tr_pc = "engagement"
    /\ tr_df' = calculate_engagement_metrics(tr_df)
    /\ tr_pc' = "filter"
    /\ UNCHANGED <<runVars, ddVars, svVars, wnVars, moreVars, tr_posts, tr_in, tr_file, tr_loaded>>

TrFilterRecent ==
    /\ tr_pc = "filter"
    /\ tr_df' = RecentRows(tr_df)
    /\ tr_pc' = "done"
    /\ UNCHANGED <<runVars, ddVars, svVars, wnVars, moreVars, tr_posts, tr_in, tr_file, tr_loaded>>

\* save_excel(df, path) of the processed table, without failure.
TrSave ==
    /\ tr_pc = "done"
    /\ tr_file' = ToExcel(tr_df.rows)
    /\ tr_pc' = "saved"
    /\ UNCHANGED <<runVars, ddVars, svVars, wnVars, moreVars, tr_posts, tr_df, tr_in, tr_loaded>>

\* load_excel(path) of the file just written.
TrLoad ==
    /\ tr_pc = "saved"
    /\ tr_loaded' = load_excel(TRUE, tr_file, TRUE)
    /\ tr_pc' = "loaded"
    /\ UNCHANGED <<runVars, ddVars, svVars, wnVars, moreVars, tr_posts, tr_df, tr_in, tr_file>>

NextTransform ==
    \/ TrFlatten
    \/ TrStandardize
    \/ TrEnsureColumns
    \/ TrNormalizeBrands
    \/ TrCleanContent
    \/ TrEngagement
    \/ TrFilterRecent
    \/ TrSave
    \/ TrLoad

SpecTransform == InitTransform /\ [][NextTransform]_vars

\* ------------------------------------- the dashboard and the summary generator
\* A date is its number of days since 2025-09-01; timedelta(days=n) is n.
ANALYSIS_START_DATE == 22
ANALYSIS_END_DATE == 36

\* The days on which the summary generator runs, and the periods it has
\* written to the summaries file (start_date, end_date of line 196-197),
\* which the dashboard offers for selection.
Todays == ANALYSIS_END_DATE .. (ANALYSIS_END_DATE + MaxDaysLater)
Periods == {[start |-> t - 14, end |-> t] : t \in Todays}
NoPeriod == <<>>

\* A post of the master file: its date and its counts.
WindowPost(day, likes) ==
    [date |-> day, likes |-> likes, comments |-> 1, shares |-> 0,
     total_engagement |-> likes * 1 + 1 * 3 + 0 * 5]

\* The posts there may be around a period that ends on a day: on the first
\* and last day of each week and just before.
PostsAround(end) ==
    {WindowPost(end - age, likes) : age \in {0, 6, 7, 13, 14, 15}, likes \in {0, 2}}

\* df[(df.date >= start) & (df.date <= end)].
Between(rows, start, end) == {r \in rows : r.date >= start /\ r.date <= end}

\* Mutant: the week starts seven days before its last day.
WeekStartOffByOne(end) == end - 7

\* end - timedelta(days=6): the first day of the seven days ending on end.
WeekStart(end) == end - 6

\* dashboard.load_data(custom_start_date, custom_end_date).
load_data(rows, custom) ==
    LET last_14_days_start == IF custom # NoPeriod THEN custom.start ELSE ANALYSIS_START_DATE
        last_14_days_end == IF custom # NoPeriod THEN custom.end ELSE ANALYSIS_END_DATE
        current_7_days_end == last_14_days_end
        current_7_days_start == WeekStart(last_14_days_end)
        prev_7_days_end == current_7_days_start - 1
        prev_7_days_start == WeekStart(prev_7_days_end)
    IN [df_14_days |-> Between(rows, last_14_days_start, last_14_days_end),
        df_current |-> Between(rows, current_7_days_start, current_7_days_end),
        df_previous |-> Between(rows, prev_7_days_start, prev_7_days_end),
        start_date |-> last_14_days_start,
        end_date |-> last_14_days_end,
        current |-> <<current_7_days_start, current_7_days_end>>,
        previous |-> <<prev_7_days_start, prev_7_days_end>>]

\* summary_generator.load_and_filter_data() on the day today.
load_and_filter_data(rows, today) ==
    LET end_date == today
        start_date == end_date - 14
        current_7_days_end == end_date
        current_7_days_start == WeekStart(end_date)
        prev_7_days_end == current_7_days_start - 1
        prev_7_days_start == WeekStart(prev_7_days_end)
    IN [df_14_days |-> Between(rows, start_date, end_date),
        df_current |-> Between(rows, current_7_days_start, current_7_days_end),
        df_previous |-> Between(rows, prev_7_days_start, prev_7_days_end),
        start_date |-> start_date,
        end_date |-> end_date,
        current |-> <<current_7_days_start, current_7_days_end>>,
        previous |-> <<prev_7_days_start, prev_7_days_end>>]

\* The five metrics of a set of rows: nunique of post_id and four sums.
Metrics == {"posts", "total_engagement", "likes", "comments", "shares"}
RECURSIVE SumOf(_, _)
SumOf(rows, m) ==
    IF rows = {} THEN 0
    ELSE LET r == CHOOSE x \in rows : TRUE IN r[m] + SumOf(rows \ {r}, m)
MetricOf(rows, m) == IF m = "posts" THEN Cardinality(rows) ELSE SumOf(rows, m)

\* A percentage as an exact fraction num / den.
Ratio(n, d) == [num |-> n, den |-> d]
SameRatio(a, b) == a.num * b.den = b.num * a.den

\* summary_generator.get_brand_stats, lines 93-97.
get_brand_stats_change(current, previous) ==
    IF previous > 0 THEN Ratio((current - previous) * 100, previous)
    ELSE IF current > 0 THEN Ratio(100, 1) ELSE Ratio(0, 1)

\* dashboard.calculate_comparison_stats, lines 140-144.
calculate_comparison_stats_change(current, previous) ==
    IF previous > 0 THEN Ratio((current - previous) * 100, previous) ELSE Ratio(0, 1)

\* The per-brand tab of the dashboard, lines 379-412.
performance_tab_change(current, previous) ==
    IF previous > 0 THEN Ratio((current - previous) * 100, previous)
    ELSE IF current > 0 THEN Ratio(100, 1)
    ELSE Ratio(0, 1)

InitWindows ==
    /\ PipelineIdle
    /\ NoDedup
    /\ NoSave
    /\ NoTransform
    /\ NoMore
    /\ wn_pc = "load"
    /\ wn_caller \in {"dashboard", "calculate_comparison_stats", "summary_generator"}
    /\ wn_today \in (IF wn_caller = "summary_generator" THEN Todays ELSE {ANALYSIS_END_DATE})
    /\ wn_custom \in (IF wn_caller = "dashboard" THEN Periods \cup {NoPeriod} ELSE {NoPeriod})
    /\ wn_posts \in {rows \in SUBSET PostsAround(IF wn_custom # NoPeriod THEN wn_custom.end
                                                   ELSE wn_today) :
                        Cardinality(rows) <= MaxLen}
    /\ wn_loaded = <<>>
    /\ wn_stats = <<>>
    /\ wn_tab = <<>>

\* The dashboard script loads the data of the selected period (line 283).
\* The script itself never calls calculate_comparison_stats; that function
\* is run on its own, on the two weeks load_data returns.
DashboardLoadData ==
    /\ wn_pc = "load"
    /\ wn_caller \in {"dashboard", "calculate_comparison_stats"}
    /\ wn_loaded' = load_data(wn_posts, wn_custom)
    /\ wn_pc' = IF wn_caller = "dashboard" THEN "tabs" ELSE "comparison"
    /\ UNCHANGED <<runVars, ddVars, svVars, trVars, moreVars, wn_caller, wn_today, wn_custom,
                   wn_posts, wn_stats, wn_tab>>

\* calculate_comparison_stats(df_current, df_previous, brands).
DashboardComparisonStats ==
    /\ wn_pc = "comparison"
    /\ wn_stats' = [m \in Metrics |->
                      calculate_comparison_stats_change(MetricOf(wn_loaded.df_current, m),
                                                        MetricOf(wn_loaded.df_previous, m))]
    /\ wn_pc' = "done"
    /\ UNCHANGED <<runVars, ddVars, svVars, trVars, moreVars, wn_caller, wn_today, wn_custom,
                   wn_posts, wn_loaded, wn_tab>>

\* The per-brand tab computes its own changes from the same two weeks.
DashboardBrandTab ==
    /\ wn_pc = "tabs"
    /\ wn_tab' = [m \in Metrics |->
                    performance_tab_change(MetricOf(wn_loaded.df_current, m),
                                           MetricOf(wn_loaded.df_previous, m))]
    /\ wn_pc' = "done"
    /\ UNCHANGED <<runVars, ddVars, svVars, trVars, moreVars, wn_caller, wn_today, wn_custom,
                   wn_posts, wn_loaded, wn_stats>>

\* The summary generator loads the data of the last 14 days (line 188).
SummaryLoadAndFilter ==
    /\ wn_pc = "load"
    /\ wn_caller = "summary_generator"
    /\ wn_loaded' = load_and_filter_data(wn_posts, wn_today)
    /\ wn_pc' = "brand_stats"
    /\ UNCHANGED <<runVars, ddVars, svVars, trVars, moreVars, wn_caller, wn_today, wn_custom,
                   wn_posts, wn_stats, wn_tab>>

\* get_brand_stats(df_current_week, df_previous_week, brand_name).
SummaryBrandStats ==
    /\ wn_pc = "brand_stats"
    /\ wn_stats' = [m \in Metrics |->
                      get_brand_stats_change(MetricOf(wn_loaded.df_current, m),
                                             MetricOf(wn_loaded.df_previous, m))]
    /\ wn_pc' = "done"
    /\ UNCHANGED <<runVars, ddVars, svVars, trVars, moreVars, wn_caller, wn_today, wn_custom,
                   wn_posts, wn_loaded, wn_tab>>

NextWindows ==
    \/ DashboardLoadData
    \/ DashboardComparisonStats
    \/ DashboardBrandTab
    \/ SummaryLoadAndFilter
    \/ SummaryBrandStats

SpecWindows == InitWindows /\ [][NextWindows]_vars

\* ------------------------------------------------ label_posts_with_gpt alone
\* Mutant: a failed call leaves the summary empty.
SummaryNotCaught(post_content, callFails) ==
    IF callFails THEN Null ELSE "about " \o post_content

\* generate_summary(post_content): the model's summary of the content; "NONE"
\* when the call raises (the except branch).
generate_summary(post_content, callFails) ==
    IF callFails THEN "NONE" ELSE "about " \o post_content

\* generate_clusters(post_content): the three ranked clusters; ("NONE", None,
\* None) when the call raises.
generate_clusters(post_content, callFails) ==
    IF callFails THEN <<"NONE", Null, Null>>
    ELSE <<"Events and Experiences",
           IF post_content = "x" THEN Null ELSE "Food and Dining Specials", Null>>

\* How one task of the pool can end: each of its two model calls succeeds or
\* fails, or the task itself raises and future.result() re-raises.
TaskOutcomes ==
    [summary_fails : BOOLEAN, clusters_fail : BOOLEAN, raises : {FALSE}]
    \cup {[summary_fails |-> FALSE, clusters_fail |-> FALSE, raises |-> TRUE]}

process_post_with_gpt(post_content, outcome) ==
    <<generate_summary(post_content, outcome.summary_fails)>>
    \o generate_clusters(post_content, outcome.clusters_fail)

\* The values the loop over as_completed stores for one task: its result,
\* or the values of the except branch when future.result() raises.
CollectedResult(post_content, outcome) ==
    IF outcome.raises THEN <<"NONE", "NONE", Null, Null>>
    ELSE process_post_with_gpt(post_content, outcome)

\* The contents of the posts handed to the labeler: two that differ only in
\* case, two other texts, an empty text and a missing one.
LabelContents == {"x", "X", "y", "z", "", Null}

\* The tables label_posts_with_gpt is called with: up to MaxLen posts, and a
\* table without a content column.
LabelTables ==
    { [i \in DOMAIN cs |-> [post_id |-> ToString(i), content |-> cs[i]]] :
        cs \in SeqsUpTo(LabelContents, MaxLen) }
    \cup { <<[post_id |-> "1"]>> }

HasContentColumn(table) == \A i \in DOMAIN table : "content" \in DOMAIN table[i]

\* summaries, cluster1_list, cluster2_list, cluster3_list = [None] * n
NoneLists(n) ==
    [summaries |-> [i \in 1 .. n |-> Null], cluster1_list |-> [i \in 1 .. n |-> Null],
     cluster2_list |-> [i \in 1 .. n |-> Null], cluster3_list |-> [i \in 1 .. n |-> Null]]

\* Mutant: a result is stored in the order of completion.
SlotByCompletion(i, collected) == collected + 1

\* i = futures[future]: the position the task was submitted for.
ResultSlot(i, collected) == i

StoreAt(lists, slot, t) ==
    [summaries |-> [lists.summaries EXCEPT ![slot] = t[1]],
     cluster1_list |-> [lists.cluster1_list EXCEPT ![slot] = t[2]],
     cluster2_list |-> [lists.cluster2_list EXCEPT ![slot] = t[3]],
     cluster3_list |-> [lists.cluster3_list EXCEPT ![slot] = t[4]]]

\* df[COL_SUMMARY] = summaries and the three cluster columns.
AssignLists(table, lists) ==
    [i \in DOMAIN table |->
        [c \in DOMAIN table[i] \cup {"post_summary", "cluster_1", "cluster_2", "cluster_3"} |->
            CASE c = "post_summary" -> lists.summaries[i]
              [] c = "cluster_1" -> lists.cluster1_list[i]
              [] c = "cluster_2" -> lists.cluster2_list[i]
              [] c = "cluster_3" -> lists.cluster3_list[i]
              [] OTHER -> table[i][c]]]

InitLabel ==
    /\ PipelineIdle
    /\ NoDedup
    /\ NoSave
    /\ NoTransform
    /\ NoWindows
    /\ NoSummaries
    /\ NoMainRun
    /\ NoWaiting
    /\ lb_pc = "prepare"
    /\ lb_in \in LabelTables
    /\ lb_df = <<>>
    /\ lb_pending = {}
    /\ lb_tasks = <<>>
    /\ lb_lists = <<>>
    /\ lb_out = <<>>

\* Lines 227-257: without a content column, or with no text left, the table
\* is returned as it is; otherwise one task per retained row is submitted.
LabelPrepare ==
    /\ lb_pc = "prepare"
    /\ IF ~HasContentColumn(lb_in)
       THEN /\ lb_out' = lb_in
            /\ lb_pc' = "returned"
            /\ UNCHANGED <<lb_df, lb_pending, lb_tasks, lb_lists>>
       ELSE /\ lb_df' = LabelCandidates(lb_in)
            /\ IF lb_df' = <<>>
               THEN /\ lb_out' = lb_df'
                    /\ lb_pc' = "returned"
                    /\ UNCHANGED <<lb_pending, lb_tasks, lb_lists>>
               ELSE /\ lb_pending' = DOMAIN lb_df'
                    /\ lb_tasks' = <<>>
                    /\ lb_lists' = NoneLists(Len(lb_df'))
                    /\ lb_pc' = "pool"
                    /\ UNCHANGED lb_out
    /\ UNCHANGED <<runVars, ddVars, svVars, trVars, wnVars, smVars, mnVars, wtVars, lb_in>>

\* One iteration of the loop over as_completed: any pending task may be the
\* next to complete; its values go into the four lists.
LabelCollect ==
    /\ lb_pc = "pool"
    /\ \E i \in lb_pending : \E outcome \in TaskOutcomes :
         /\ lb_lists' = StoreAt(lb_lists,
                                ResultSlot(i, Len(lb_tasks)),
                                CollectedResult(lb_df[i].content, outcome))
         /\ lb_tasks' = Append(lb_tasks, [task |-> i, outcome |-> outcome])
         /\ lb_pending' = lb_pending \ {i}
    /\ UNCHANGED <<runVars, ddVars, svVars, trVars, wnVars, smVars, mnVars, wtVars, lb_pc, lb_in, lb_df, lb_out>>

\* Lines 275-284: the lists become columns and the table is returned.
LabelReturn ==
    /\ lb_pc = "pool"
    /\ lb_pending = {}
    /\ lb_out' = AssignLists(lb_df, lb_lists)
    /\ lb_pc' = "returned"
    /\ UNCHANGED <<runVars, ddVars, svVars, trVars, wnVars, smVars, mnVars, wtVars, lb_in, lb_df, lb_pending,
                   lb_tasks, lb_lists>>

NextLabel ==
    \/ LabelPrepare
    \/ LabelCollect
    \/ LabelReturn

SpecLabel == InitLabel /\ [][NextLabel]_vars

\* ------------------------------------------------ generate_all_summaries alone
\* One row of the summaries file: the period and the text of each brand
\* (one brand stands for all of them).
SummaryRow(start_date, end_date, text) ==
    [start_date |-> start_date, end_date |-> end_date, Akropolis |-> text]

\* generate_competitor_summary: the model's text, or the text of the error.
BrandTexts == {"summary", "Error generating summary"}

\* The summaries file before the first run: none, an empty one, or one row
\* of an earlier period.
InitialSummaries ==
    { [exists |-> FALSE, rows |-> <<>>], [exists |-> TRUE, rows |-> <<>>],
      [exists |-> TRUE,
       rows |-> <<SummaryRow(ANALYSIS_START_DATE, ANALYSIS_END_DATE, "summary")>>] }

StoredSummaries == IF sm_exists /\ sm_complete THEN sm_rows ELSE <<>>

\* Lines 235-245: the new row after the existing rows; the new row alone
\* when there is no file or when reading it raises.
CombinedSummaries(existing, readOk, new) ==
    IF readOk THEN Append(existing, new) ELSE <<new>>

InitSummaries ==
    /\ PipelineIdle
    /\ NoDedup
    /\ NoSave
    /\ NoTransform
    /\ NoWindows
    /\ NoLabeling
    /\ NoMainRun
    /\ NoWaiting
    /\ sm_pc = "idle"
    /\ \E f \in InitialSummaries :
         /\ sm_exists = f.exists
         /\ sm_rows = f.rows
         /\ sm_initial = f.rows
    /\ sm_complete = TRUE
    /\ sm_today = ANALYSIS_END_DATE
    /\ sm_new = <<>>
    /\ sm_combined = <<>>
    /\ sm_before = <<>>
    /\ sm_started = 0
    /\ sm_done = 0

\* generate_all_summaries is called, by the pipeline or by the script, on
\* the same day as the run before or later.
SummariesStart ==
    /\ sm_pc = "idle"
    /\ sm_started < MaxRuns
    /\ sm_started' = sm_started + 1
    /\ sm_today' \in {t \in Todays : t >= sm_today}
    /\ sm_before' = StoredSummaries
    /\ sm_new' = <<>>
    /\ sm_combined' = <<>>
    /\ sm_pc' = "load"
    /\ UNCHANGED <<runVars, ddVars, svVars, trVars, wnVars, lbVars, mnVars, wtVars,
                   sm_exists, sm_complete, sm_rows, sm_initial, sm_done>>

\* Lines 188-228: load_and_filter_data reads the master file, whose error is
\* not caught; then every brand gets a text and the row is built.
SummariesBuildRow ==
    /\ sm_pc = "load"
    /\ \E masterRead \in BOOLEAN :
         IF masterRead
         THEN /\ \E text \in BrandTexts :
                   sm_new' = SummaryRow(load_and_filter_data({}, sm_today).start_date,
                                        load_and_filter_data({}, sm_today).end_date, text)
              /\ sm_pc' = "read_existing"
         ELSE /\ sm_pc' = "raised"
              /\ UNCHANGED sm_new
    /\ UNCHANGED <<runVars, ddVars, svVars, trVars, wnVars, lbVars, mnVars, wtVars, sm_exists, sm_complete,
                   sm_rows, sm_today, sm_combined, sm_before, sm_initial, sm_started, sm_done>>

\* Lines 231-246: df_combined.
SummariesReadExisting ==
    /\ sm_pc = "read_existing"
    /\ \E readOk \in (IF ~sm_exists THEN {FALSE} ELSE IF sm_complete THEN BOOLEAN ELSE {FALSE}) :
         sm_combined' = CombinedSummaries(sm_rows, readOk, sm_new)
    /\ sm_pc' = "write"
    /\ UNCHANGED <<runVars, ddVars, svVars, trVars, wnVars, lbVars, mnVars, wtVars, sm_exists, sm_complete,
                   sm_rows, sm_today, sm_new, sm_before, sm_initial, sm_started, sm_done>>

\* Line 249: df_combined.to_excel(output_path) writes the path itself; it
\* can fail before the file is opened, or after, when the file is already
\* emptied.
SummariesWrite ==
    /\ sm_pc = "write"
    /\ \E outcome \in {"written", "not_opened", "not_finished"} :
         CASE outcome = "written" ->
                /\ sm_exists' = TRUE
                /\ sm_complete' = TRUE
                /\ sm_rows' = sm_combined
                /\ sm_done' = sm_done + 1
                /\ sm_pc' = "returned"
           [] outcome = "not_opened" ->
                /\ sm_pc' = "raised"
                /\ UNCHANGED <<sm_exists, sm_complete, sm_rows, sm_done>>
           [] OTHER ->
                /\ sm_exists' = TRUE
                /\ sm_complete' = FALSE
                /\ sm_rows' = <<>>
                /\ sm_pc' = "raised"
                /\ UNCHANGED sm_done
    /\ UNCHANGED <<runVars, ddVars, svVars, trVars, wnVars, lbVars, mnVars, wtVars, sm_today, sm_new,
                   sm_combined, sm_before, sm_initial, sm_started>>

\* The call is over.
SummariesExit ==
    /\ sm_pc \in {"returned", "raised"}
    /\ sm_pc' = "idle"
    /\ UNCHANGED <<runVars, ddVars, svVars, trVars, wnVars, lbVars, mnVars, wtVars, sm_exists, sm_complete,
                   sm_rows, sm_today, sm_new, sm_combined, sm_before, sm_initial,
                   sm_started, sm_done>>

NextSummaries ==
    \/ SummariesStart
    \/ SummariesBuildRow
    \/ SummariesReadExisting
    \/ SummariesWrite
    \/ SummariesExit

SpecSummaries == InitSummaries /\ [][NextSummaries]_vars

\* ------------------------------------- one run of main / continue_from_snapshot
\* What a run can find on disk: the dataset file (none, or one labeled post),
\* the backups directory (there or not), the summaries file (none, or one
\* row).
Disk(fileThere, rows, dirThere, copies, summariesThere, summaries) ==
    [file_exists |-> fileThere, file_rows |-> rows, backups_dir |-> dirThere,
     backups |-> copies, summaries_exists |-> summariesThere, summaries_rows |-> summaries]

MainDisks ==
    { Disk(f.exists, f.rows, dirThere, <<>>, sm.exists, sm.rows) :
        f \in { [exists |-> FALSE, rows |-> <<>>],
                [exists |-> TRUE,
                 rows |-> ToExcel(<<WithLabels(NewRow("A", "x"), GptLabels("x"))>>)] },
        dirThere \in BOOLEAN,
        sm \in { [exists |-> FALSE, rows |-> <<>>],
                 [exists |-> TRUE,
                  rows |-> <<SummaryRow(ANALYSIS_START_DATE, ANALYSIS_END_DATE, "summary")>>] } }

\* Mutant: an empty table does not end the run.
EmptyGoesOn(table) == FALSE

\* `if df.empty: return` after process_social_media_data.
EmptyEndsRun(table) == table = <<>>

InitMain ==
    /\ PipelineIdle
    /\ NoDedup
    /\ NoSave
    /\ NoTransform
    /\ NoWindows
    /\ NoLabeling
    /\ NoSummaries
    /\ NoWaiting
    /\ mn_pc = "scrape"
    /\ mn_entry \in {"main", "continue_from_snapshot"}
    /\ mn_labeling \in BOOLEAN
    /\ mn_posts = <<>>
    /\ mn_processed = <<>>
    /\ mn_df = <<>>
    /\ mn_combined = <<>>
    /\ mn_disk \in MainDisks
    /\ mn_before = mn_disk
    /\ mn_steps = <<>>

\* Step 1: scrape_all_social_media() or download_brightdata_snapshot(); no
\* posts ends the run.
MainScrape ==
    /\ mn_pc = "scrape"
    /\ mn_posts' \in Batches
    /\ mn_steps' = Append(mn_steps, IF mn_entry = "main" THEN "scrape_all_social_media"
                                    ELSE "download_brightdata_snapshot")
    /\ mn_pc' = IF mn_posts' = <<>> THEN "returned" ELSE "transform"
    /\ UNCHANGED <<runVars, ddVars, svVars, trVars, wnVars, lbVars, smVars, wtVars, mn_entry,
                   mn_labeling, mn_processed, mn_df, mn_combined, mn_disk, mn_before>>

\* Step 2: df = process_social_media_data(posts), which normalizes (its
\* steps 1 to 5), computes the engagement metrics and filters by date; an
\* empty table ends the run.
MainTransform ==
    /\ mn_pc = "transform"
    /\ mn_processed' = process_social_media_data(mn_posts)
    /\ mn_df' = mn_processed'
    /\ mn_steps' = mn_steps \o <<"normalize", "calculate_engagement_metrics",
                                 "filter_recent_posts">>
    /\ mn_pc' = IF EmptyEndsRun(mn_df') THEN "returned" ELSE "label"
    /\ UNCHANGED <<runVars, ddVars, svVars, trVars, wnVars, lbVars, smVars, wtVars, mn_entry,
                   mn_labeling, mn_posts, mn_combined, mn_disk, mn_before>>

\* Step 3: df = label_posts_with_gpt(df, ...) when labeling is enabled.
MainLabel ==
    /\ mn_pc = "label"
    /\ IF mn_labeling /\ mn_df # <<>>
       THEN /\ \E failed \in SUBSET (1 .. Len(LabelCandidates(mn_df))) :
                 mn_df' = label_posts_with_gpt(mn_df, failed)
            /\ mn_steps' = Append(mn_steps, "label_posts_with_gpt")
       ELSE UNCHANGED <<mn_df, mn_steps>>
    /\ mn_pc' = "merge"
    /\ UNCHANGED <<runVars, ddVars, svVars, trVars, wnVars, lbVars, smVars, wtVars, mn_entry,
                   mn_labeling, mn_posts, mn_processed, mn_combined, mn_disk, mn_before>>

\* Step 4: combined_df = merge_with_existing_data(df, master_path); it calls
\* deduplicate_posts on the concatenation when both tables have rows.
MainMerge ==
    /\ mn_pc = "merge"
    /\ \E readOk \in (IF mn_disk.file_exists THEN BOOLEAN ELSE {TRUE}) :
         LET loaded == load_excel(mn_disk.file_exists, mn_disk.file_rows, readOk)
         IN /\ mn_combined' = merge_with_existing_data(mn_df, loaded)
            /\ mn_steps' = mn_steps \o
                 (IF mn_df # <<>> /\ loaded # <<>>
                  THEN <<"merge_with_existing_data", "deduplicate_posts">>
                  ELSE <<"merge_with_existing_data">>)
    /\ mn_pc' = "backup"
    /\ UNCHANGED <<runVars, ddVars, svVars, trVars, wnVars, lbVars, smVars, wtVars, mn_entry,
                   mn_labeling, mn_posts, mn_processed, mn_df, mn_disk, mn_before>>

\* Step 5, first half: save_with_backup calls backup_existing_data.
MainBackup ==
    /\ mn_pc = "backup"
    /\ mn_disk' = IF mn_disk.file_exists /\ BackupCopies(mn_disk.backups_dir)
                  THEN [mn_disk EXCEPT !.backups = Append(@, mn_disk.file_rows)]
                  ELSE mn_disk
    /\ mn_steps' = Append(mn_steps, "backup_existing_data")
    /\ mn_pc' = "save"
    /\ UNCHANGED <<runVars, ddVars, svVars, trVars, wnVars, lbVars, smVars, wtVars, mn_entry,
                   mn_labeling, mn_posts, mn_processed, mn_df, mn_combined, mn_before>>

\* Step 5, second half: save_excel(combined_df, master_path).
MainSave ==
    /\ mn_pc = "save"
    /\ mn_disk' = [mn_disk EXCEPT !.file_exists = TRUE, !.file_rows = ToExcel(mn_combined)]
    /\ mn_steps' = Append(mn_steps, "save_excel")
    /\ mn_pc' = "summaries"
    /\ UNCHANGED <<runVars, ddVars, svVars, trVars, wnVars, lbVars, smVars, wtVars, mn_entry,
                   mn_labeling, mn_posts, mn_processed, mn_df, mn_combined, mn_before>>

\* Step 6 (config.ENABLE_WEEKLY_SUMMARIES is True): generate_all_summaries,
\* any exception of which is caught; it appends its row, or writes its row
\* alone when the summaries file cannot be read, or raises before it writes.
MainSummaries ==
    /\ mn_pc = "summaries"
    /\ \E outcome \in {"written", "raised"} :
       \E readOk \in (IF mn_disk.summaries_exists THEN BOOLEAN ELSE {FALSE}) :
         mn_disk' = IF outcome = "raised" THEN mn_disk
                    ELSE [mn_disk EXCEPT
                            !.summaries_exists = TRUE,
                            !.summaries_rows =
                                CombinedSummaries(@, readOk,
                                    SummaryRow(ANALYSIS_END_DATE - 14, ANALYSIS_END_DATE,
                                               "summary"))]
    /\ mn_steps' = Append(mn_steps, "generate_all_summaries")
    /\ mn_pc' = "finish"
    /\ UNCHANGED <<runVars, ddVars, svVars, trVars, wnVars, lbVars, smVars, wtVars, mn_entry,
                   mn_labeling, mn_posts, mn_processed, mn_df, mn_combined, mn_before>>

NextMain ==
    \/ MainScrape
    \/ MainTransform
    \/ MainLabel
    \/ MainMerge
    \/ MainBackup
    \/ MainSave
    \/ MainSummaries

SpecMain == InitMain /\ [][NextMain]_vars

\* ------------------------------------------------ wait_for_snapshot_ready
\* The largest max_wait_minutes tried.
MaxWait == 3

\* What one pass of the loop body can meet: a requests RequestException
\* (connection error, timeout, HTTP error status from raise_for_status), or a
\* progress object whose status is "ready" or another one.
PollOutcomes == {"error", "ready", "running", "building"}

\* Mutant: the wait ends only when the limit is exceeded.
TimedOutStrictly(elapsed_seconds, max_wait_minutes) ==
    elapsed_seconds > max_wait_minutes * 60

\* `if elapsed_seconds >= max_wait_minutes * 60`.
TimedOut(elapsed_seconds, max_wait_minutes) ==
    elapsed_seconds >= max_wait_minutes * 60

InitWait ==
    /\ PipelineIdle
    /\ NoDedup
    /\ NoSave
    /\ NoTransform
    /\ NoWindows
    /\ NoLabeling
    /\ NoSummaries
    /\ NoMainRun
    /\ wt_pc = "request"
    /\ wt_max \in 0 .. MaxWait
    /\ wt_elapsed = 0
    /\ wt_polls = 0
    /\ wt_seen = <<>>
    /\ wt_result = "pending"

\* One pass of the loop body up to its return or its sleep: the request,
\* then the test for "ready", then the test of the time.
WaitPoll ==
    /\ wt_pc = "request"
    /\ \E outcome \in PollOutcomes :
         /\ wt_seen' = Append(wt_seen, outcome)
         /\ IF outcome = "error"
            THEN wt_pc' = "returned" /\ wt_result' = "False"
            ELSE IF outcome = "ready"
            THEN wt_pc' = "returned" /\ wt_result' = "True"
            ELSE IF TimedOut(wt_elapsed, wt_max)
            THEN wt_pc' = "returned" /\ wt_result' = "False"
            ELSE wt_pc' = "sleep" /\ UNCHANGED wt_result
    /\ wt_polls' = wt_polls + 1
    /\ UNCHANGED <<runVars, ddVars, svVars, trVars, wnVars, lbVars, smVars, mnVars,
                   wt_max, wt_elapsed>>

\* time.sleep(20); elapsed_seconds += 20.
WaitSleep ==
    /\ wt_pc = "sleep"
    /\ wt_elapsed' = wt_elapsed + 20
    /\ wt_pc' = "request"
    /\ UNCHANGED <<runVars, ddVars, svVars, trVars, wnVars, lbVars, smVars, mnVars,
                   wt_max, wt_polls, wt_seen, wt_result>>

NextWait ==
    \/ WaitPoll
    \/ WaitSleep

SpecWait == InitWait /\ [][NextWait]_vars

\* The function runs in one thread; a request ends (timeout=30) and a sleep
\* ends, so a step that can be taken is taken.
FairSpecWait == SpecWait /\ WF_vars(NextWait)

\* ------------------------------------------------------------------ claims
UniquePostIds(table) ==
    \A i, j \in DOMAIN table : i # j => table[i].post_id # table[j].post_id

Populated(row) == Labels(row) # <<Null, Null, Null, Null>>

StoredRows == IF fileExists THEN fileRows ELSE <<>>

\* C1: after a run of main, scrape_facebook_only or continue_from_snapshot
\* has saved, the dataset file holds no two rows with the same post_id.
C1_SavedPostIdsUnique ==
    (pc = "finish" /\ entry \in PipelineRuns) => UniquePostIds(fileRows)

\* C2: when the loaded existing dataset and the new batch are both non-empty,
\* the merge returns exactly one row for every existing post_id, and that
\* row carries the post_summary and cluster_1..3 of the (first) existing row
\* with that post_id, whatever the new batch holds for it.
C2_ExistingEnrichmentWins ==
    (pc = "backup" /\ entry \in PipelineRuns /\ existing_posts # <<>> /\ df # <<>>) =>
        \A e \in DOMAIN existing_posts :
            LET p == existing_posts[e].post_id
                first == CHOOSE i \in DOMAIN existing_posts :
                            /\ existing_posts[i].post_id = p
                            /\ \A j \in 1 .. (i - 1) : existing_posts[j].post_id # p
                hits == {k \in DOMAIN combined_df : combined_df[k].post_id = p}
            IN /\ Cardinality(hits) = 1
               /\ \A k \in hits : Labels(combined_df[k]) = Labels(existing_posts[first])

\* C2's case: the batch re-scrapes a stored post and brings other enrichment
\* values for it than the stored ones.
C2_Witness ==
    /\ pc = "backup"
    /\ entry \in PipelineRuns
    /\ \E e \in DOMAIN existing_posts, n \in DOMAIN df :
         /\ existing_posts[e].post_id = df[n].post_id
         /\ Populated(existing_posts[e])
         /\ Labels(existing_posts[e]) # Labels(df[n])

\* C3: a save of a merging run keeps, for every stored row with populated
\* enrichment whose post_id was not sent for labeling in this run, a row with
\* that post_id and the same enrichment.
C3_EnrichmentKept ==
    [][ (pc = "save" /\ entry \in PipelineRuns) =>
          \A i \in DOMAIN StoredRows :
              (Populated(StoredRows[i]) /\ StoredRows[i].post_id \notin submitted) =>
                  \E k \in DOMAIN fileRows' :
                      /\ fileRows'[k].post_id = StoredRows[i].post_id
                      /\ Labels(fileRows'[k]) = Labels(StoredRows[i]) ]_vars

\* C4: in a run of main or continue_from_snapshot with labeling enabled that
\* brings a batch into a non-empty stored dataset, the post_ids sent to the
\* LLM are exactly the post_ids of the batch that are not stored.
C4_OnlyNewPostsLabeled ==
    [][ (pc = "label" /\ pc' = "merge" /\ ENABLE_GPT_LABELING /\ StoredRows # <<>>) =>
          submitted' = PostIds(df) \ PostIds(StoredRows) ]_vars

\* C5: when no file exists or the stored dataset is empty, the merge returns
\* the new batch deduplicated by post_id, first occurrence kept.
C5_NewBatchDeduplicated ==
    (pc = "backup" /\ entry \in PipelineRuns /\ StoredRows = <<>>) =>
        /\ UniquePostIds(combined_df)
        /\ PostIds(combined_df) = PostIds(df)
        /\ \A k \in DOMAIN combined_df : \E i \in DOMAIN df :
             /\ combined_df[k] = df[i]
             /\ \A j \in 1 .. (i - 1) : df[j].post_id # df[i].post_id

\* C6: when the new batch is empty, the merge returns exactly the rows
\* stored at the path.
C6_EmptyBatchReturnsStored ==
    (pc = "backup" /\ entry \in PipelineRuns /\ df = <<>>) => combined_df = StoredRows

\* The key of a row of the input table: a missing key column counts as null.
InputKey(row, keys) ==
    [i \in DOMAIN keys |-> IF keys[i] \in DOMAIN row THEN row[keys[i]] ELSE Null]

FirstOccurrence(table, keys, i) ==
    \A j \in 1 .. (i - 1) : InputKey(table[j], keys) # InputKey(table[i], keys)

\* The output row is the input row, possibly with key columns added.
SameRow(out, in) == \A c \in DOMAIN in : out[c] = in[c]

\* C7: deduplicate_posts returns exactly one row per key combination of the
\* input, that row is the first input row with the key, and the surviving
\* rows keep their input order.
C7_FirstOccurrencePerKey ==
    dd_pc >= 1 =>
        /\ \A i \in DOMAIN dd_table :
             Cardinality({k \in DOMAIN dd_once :
                 InputKey(dd_once[k], dd_keys) = InputKey(dd_table[i], dd_keys)}) = 1
        /\ \A k \in DOMAIN dd_once : \E i \in DOMAIN dd_table :
             /\ FirstOccurrence(dd_table, dd_keys, i)
             /\ SameRow(dd_once[k], dd_table[i])
             /\ InputKey(dd_once[k], dd_keys) = InputKey(dd_table[i], dd_keys)
        /\ \A k1, k2 \in DOMAIN dd_once : k1 < k2 =>
             \E i1, i2 \in DOMAIN dd_table :
                /\ i1 < i2
                /\ FirstOccurrence(dd_table, dd_keys, i1)
                /\ FirstOccurrence(dd_table, dd_keys, i2)
                /\ SameRow(dd_once[k1], dd_table[i1])
                /\ SameRow(dd_once[k2], dd_table[i2])

\* C7's case: a later row with the key of an earlier, different row was
\* dropped, and more than one row survived.
C7_Witness ==
    /\ dd_pc = 1
    /\ Len(dd_once) >= 2
    /\ \E i, j \in DOMAIN dd_table :
         /\ i < j
         /\ InputKey(dd_table[i], dd_keys) = InputKey(dd_table[j], dd_keys)
         /\ dd_table[i] # dd_table[j]

\* C8: deduplicating the deduplicated table with the same keys returns the
\* same rows in the same order.
C8_DedupIdempotent == dd_pc = 2 => dd_twice = dd_once

\* C8's case: the first application dropped rows, the second ran on its result.
C8_Witness == dd_pc = 2 /\ Len(dd_once) < Len(dd_table) /\ Len(dd_once) >= 2

\* C9: after a save over an existing file, a backup file holds the rows the
\* file had before the save, and it was copied before the file was written.
C9_BackupHoldsPreviousRows ==
    (pc = "finish" /\ Len(fs_ops) > 0 /\ fs_ops[Len(fs_ops)] = "overwrite") =>
        /\ fs_ops = <<"backup_copied", "overwrite">>
        /\ \E t \in DOMAIN backups : backups[t] = replaced

C11_FailedSaveKeepsFile ==
    sv_pc = "raised" =>
        /\ sv_exists = sv_prev.exists
        /\ sv_complete
        /\ sv_rows = sv_prev.rows

\* C12: a read of the path of an existing dataset at any moment of a save
\* succeeds and returns either the complete previous dataset or the complete
\* new dataset.
C12_ReaderSeesWholeDataset ==
    (sv_prev.exists /\ sv_observed.by # "none") =>
        /\ sv_observed.ok
        /\ sv_observed.rows \in {sv_prev.rows, ToExcel(sv_df)}

\* C13: load_excel on a path with no file returns an empty dataset and
\* raises nothing: the merge of a run that finds no file goes on with no
\* existing rows.
C13_MissingFileLoadsEmpty ==
    [][ (pc = "merge" /\ ~fileExists /\ pc' # "merge") =>
          /\ pc' = "backup"
          /\ raised' = ""
          /\ existing_posts' = <<>> ]_vars

\* C13's case: a run with a batch has merged while no file existed.
C13_Witness ==
    /\ pc = "backup"
    /\ entry \in PipelineRuns
    /\ ~fileExists
    /\ df # <<>>
    /\ existing_posts = <<>>
    /\ raised = ""

\* The (post_id, total_engagement) pairs of a processed table, the number
\* in its decimal text, and those of a table read back from Excel.
EngagementById(table) ==
    {<<table[i].post_id, ToString(table[i].total_engagement)>> : i \in DOMAIN table}
LoadedEngagementById(table) ==
    {<<table[i].post_id, table[i].total_engagement>> : i \in DOMAIN table}

C15_WeightedEngagement ==
    tr_pc = "done" =>
        \A i \in DOMAIN tr_df.rows :
            tr_df.rows[i]["total_engagement"] =
                tr_df.rows[i]["likes"] * 1 + tr_df.rows[i]["comments"] * 3
                + tr_df.rows[i]["shares"] * 5

\* The aliases of a mapping whose value is present in a record.
PresentAliases(frame, i, candidates) ==
    {j \in DOMAIN candidates :
        /\ candidates[j] \in frame.columns
        /\ ~IsMissing(candidates[j], frame.rows[i][candidates[j]])}

\* C19: after standardize_facebook_data, every standard field of every
\* record holds the value of the first alias, in the order of the alias
\* list, that is present in that record, and the missing value when no
\* alias is present.
C19_FirstPresentAliasWins ==
    (tr_pc = "ensure" /\ tr_in.rows # <<>>) =>
        \A i \in DOMAIN tr_in.rows : \A m \in DOMAIN field_mappings :
            LET col == field_mappings[m].col
                candidates == field_mappings[m].candidates
                present == PresentAliases(tr_in, i, candidates)
                first == CHOOSE j \in present : \A h \in present : j <= h
            IN tr_df.rows[i][col] =
                  IF present = {} THEN Missing(col) ELSE tr_in.rows[i][candidates[first]]

\* C20: every column of the table process_social_media_data returns is one
\* of the essential columns.
C20_OnlyEssentialColumns ==
    tr_pc = "done" =>
        /\ tr_df.columns \subseteq essential_columns
        /\ \A i \in DOMAIN tr_df.rows : DOMAIN tr_df.rows[i] \subseteq essential_columns

\* C20's case: posts with provider-specific fields were processed and rows
\* came out.
C20_Witness ==
    /\ tr_pc = "done"
    /\ tr_df.rows # <<>>
    /\ \E i \in DOMAIN tr_posts : ~(FlatColumns(tr_posts[i]) \subseteq essential_columns)

\* C16: with E the end date of the period, load_data and
\* load_and_filter_data use the current window [E-6, E] and the previous
\* window [E-13, E-7]: seven days each, no day in both, and the previous
\* window ends the day before the current one starts.
C16_WeekWindows ==
    wn_pc \notin {"idle", "load"} =>
        LET E == wn_loaded.end_date
            cur == wn_loaded.current
            prev == wn_loaded.previous
        IN /\ cur = <<E - 6, E>>
           /\ prev = <<E - 13, E - 7>>
           /\ Cardinality(cur[1] .. cur[2]) = 7
           /\ Cardinality(prev[1] .. prev[2]) = 7
           /\ (cur[1] .. cur[2]) \cap (prev[1] .. prev[2]) = {}
           /\ prev[2] + 1 = cur[1]
           /\ wn_loaded.df_current = {r \in wn_posts : r.date \in cur[1] .. cur[2]}
           /\ wn_loaded.df_previous = {r \in wn_posts : r.date \in prev[1] .. prev[2]}

\* C16's case: both windows were cut from a file with posts on the edge days
\* of both weeks.
C16_Witness ==
    /\ wn_pc = "done"
    /\ \E r \in wn_loaded.df_current : r.date = wn_loaded.end_date - 6
    /\ \E r \in wn_loaded.df_previous : r.date = wn_loaded.end_date - 7
    /\ \E r \in wn_posts : r.date = wn_loaded.end_date - 14

\* C17: the 14-day rows are exactly the rows of the current week and of the
\* previous week together.
C17_FourteenDaysIsUnion ==
    wn_pc \notin {"idle", "load"} =>
        wn_loaded.df_14_days = wn_loaded.df_current \cup wn_loaded.df_previous

\* The change the specification gives for a metric.
SpecifiedChange(current, previous) ==
    IF previous > 0 THEN Ratio((current - previous) * 100, previous)
    ELSE IF current > 0 THEN Ratio(100, 1) ELSE Ratio(0, 1)

\* C18: every week-over-week change that was computed, for every metric,
\* is (current - previous) / previous * 100 when previous > 0, 100 when
\* previous = 0 < current, and 0 when both are 0.
C18_PercentageChange ==
    wn_pc = "done" =>
        \A m \in Metrics :
            LET expected == SpecifiedChange(MetricOf(wn_loaded.df_current, m),
                                            MetricOf(wn_loaded.df_previous, m))
            IN IF wn_caller = "dashboard" THEN SameRatio(wn_tab[m], expected)
               ELSE SameRatio(wn_stats[m], expected)

\* The outcome of the task submitted for row i.
OutcomeOf(i) == lb_tasks[CHOOSE k \in DOMAIN lb_tasks : lb_tasks[k].task = i].outcome

AllCallsSucceed == [summary_fails |-> FALSE, clusters_fail |-> FALSE, raises |-> FALSE]

\* label_posts_with_gpt has returned after running the pool.
LabelingDone == lb_pc = "returned" /\ lb_tasks # <<>>

\* C21: a failed labeling call of one post does not abort the batch: the
\* function returns a row for every retained post; a post whose calls all
\* succeeded has its own labels; a failed summary call leaves post_summary
\* "NONE", a failed cluster call leaves cluster_1 "NONE" and cluster_2,
\* cluster_3 null, and a post whose labeling failed as a whole has "NONE",
\* "NONE", null, null.
C21_FailureDoesNotAbortBatch ==
    LabelingDone =>
        /\ Len(lb_out) = Len(lb_df)
        /\ \A i \in DOMAIN lb_out :
             LET o == OutcomeOf(i)
                 own == process_post_with_gpt(lb_df[i].content, AllCallsSucceed)
             IN /\ (~o.raises /\ ~o.summary_fails) => lb_out[i].post_summary = own[1]
                /\ (~o.raises /\ ~o.clusters_fail) =>
                      <<lb_out[i].cluster_1, lb_out[i].cluster_2, lb_out[i].cluster_3>>
                          = <<own[2], own[3], own[4]>>
                /\ (o.raises \/ o.summary_fails) => lb_out[i].post_summary = "NONE"
                /\ (o.raises \/ o.clusters_fail) =>
                      <<lb_out[i].cluster_1, lb_out[i].cluster_2, lb_out[i].cluster_3>>
                          = <<"NONE", Null, Null>>

\* C21's case: the labeling of one post failed, that of another succeeded.
C21_Witness ==
    /\ LabelingDone
    /\ Len(lb_out) >= 2
    /\ \E i, j \in DOMAIN lb_out :
         /\ OutcomeOf(i).summary_fails /\ OutcomeOf(i).clusters_fail
         /\ OutcomeOf(j) = AllCallsSucceed

\* C29: whatever the order in which the tasks complete, every retained row
\* ends with the values of the task submitted for its own content, and no
\* row is left without a result.
C29_ResultsAtOwnRow ==
    LabelingDone =>
        /\ {lb_tasks[k].task : k \in DOMAIN lb_tasks} = DOMAIN lb_out
        /\ \A i \in DOMAIN lb_out :
             /\ Labels(lb_out[i]) = CollectedResult(lb_out[i].content, OutcomeOf(i))
             /\ lb_out[i].post_summary # Null

\* C29's case: three tasks, the last submitted completed first, each with
\* another result.
C29_Witness ==
    /\ LabelingDone
    /\ Len(lb_out) = 3
    /\ lb_tasks[1].task = 3
    /\ lb_tasks[3].task = 2
    /\ \A k \in DOMAIN lb_tasks : lb_tasks[k].outcome = AllCallsSucceed

\* C22: a run of append_new_data_to_master that was given a file of new
\* posts ends with the merged dataset saved, in which every new post's row
\* holds the labels returned for that post's own content, and the rows of
\* the posts stored before are as they were.
C22_LabelsWrittenBackByPostId ==
    (entry = "append_new_data_to_master" /\ pc \notin {"start", "returned"}) =>
        /\ raised = ""
        /\ pc = "finish"
        /\ \A i \in DOMAIN fileRows :
             IF fileRows[i].post_id \in PostIds(replaced)
             THEN \E k \in DOMAIN replaced : replaced[k] = fileRows[i]
             ELSE Labels(fileRows[i]) \in {GptLabels(fileRows[i].content), FailedLabels}

\* C23: a run of generate_all_summaries that returns leaves the rows stored
\* before it in the file and adds its own row after them, so the file holds
\* as many rows as before the first run plus one per such run.
C23_SummariesAppendOnly ==
    sm_pc = "returned" =>
        /\ sm_exists /\ sm_complete
        /\ sm_rows = Append(sm_before, sm_new)
        /\ Len(sm_rows) = Len(sm_initial) + sm_done

\* C24: every step of every entry point keeps the post_ids stored in the
\* dataset file: a post_id stored before the step is stored after it.
C24_DatasetAppendOnly ==
    [][ fileExists => (fileExists' /\ PostIds(fileRows) \subseteq PostIds(fileRows')) ]_vars

\* The key columns the input table of SpecDedup lacks.
MissingKeys == {dd_keys[i] : i \in DOMAIN dd_keys} \ DOMAIN dd_table[1]

CalledBefore(a, b) ==
    \E i, j \in DOMAIN mn_steps : i < j /\ mn_steps[i] = a /\ mn_steps[j] = b

\* C25: in a run of main that reaches its end the steps come in the order
\* normalize, compute engagement, deduplicate, merge, backup, save.
C25_StepsInOrder ==
    mn_pc = "finish" =>
        /\ CalledBefore("normalize", "calculate_engagement_metrics")
        /\ CalledBefore("calculate_engagement_metrics", "deduplicate_posts")
        /\ CalledBefore("deduplicate_posts", "merge_with_existing_data")
        /\ CalledBefore("merge_with_existing_data", "backup_existing_data")
        /\ CalledBefore("backup_existing_data", "save_excel")

\* C27: when a run of main or continue_from_snapshot has completed, every
\* post_id of the table process_social_media_data returned is in the saved
\* dataset.
C27_ProcessedPostsAreSaved ==
    mn_pc = "finish" => PostIds(mn_processed) \subseteq PostIds(mn_disk.file_rows)

\* C28: a run that scraped no posts, or whose normalized table is empty, has
\* returned at that point and has left the dataset file, the backups and the
\* summaries file as they were.
C28_EmptyRunChangesNothing ==
    ((mn_pc \notin {"scrape", "transform"}) /\ (mn_posts = <<>> \/ mn_processed = <<>>)) =>
        /\ mn_pc = "returned"
        /\ mn_disk = mn_before

\* C28's case: posts were scraped, none survived the normalization, and a
\* dataset file with a backups directory was there to be copied.
C28_Witness ==
    /\ mn_pc = "returned"
    /\ mn_posts # <<>>
    /\ mn_processed = <<>>
    /\ mn_before.file_exists
    /\ mn_before.backups_dir

\* The polls before the last one gave neither "ready" nor an error.
NoEarlierEnd ==
    \A i \in 1 .. (Len(wt_seen) - 1) : wt_seen[i] \notin {"ready", "error"}

\* What holds of wait_for_snapshot_ready at every moment: no more than
\* max_wait_minutes*3 + 1 polls; while it runs no poll has given "ready" or
\* an error; once it has returned, the value is True exactly when the last
\* poll gave "ready", and after a last poll that gave neither "ready" nor an
\* error the elapsed time has just reached max_wait_minutes*60.
WaitSafe ==
    /\ wt_polls = Len(wt_seen)
    /\ wt_polls <= wt_max * 3 + 1
    /\ wt_pc # "returned" =>
         /\ \A i \in DOMAIN wt_seen : wt_seen[i] \notin {"ready", "error"}
         /\ wt_result = "pending"
    /\ wt_pc = "returned" =>
         /\ wt_polls >= 1
         /\ NoEarlierEnd
         /\ wt_result = (IF wt_seen[wt_polls] = "ready" THEN "True" ELSE "False")
         /\ wt_seen[wt_polls] \notin {"ready", "error"} =>
              /\ wt_elapsed >= wt_max * 60
              /\ wt_elapsed - 20 < wt_max * 60

\* C30: wait_for_snapshot_ready always returns: True at the first poll that
\* gives "ready", False at the first request error, otherwise False once the
\* elapsed time reaches max_wait_minutes*60, after at most
\* max_wait_minutes*3 + 1 polls; and it does not poll after it has returned.
C30_WaitAlwaysReturns ==
    /\ []WaitSafe
    /\ <>(wt_pc = "returned")
    /\ [][wt_pc = "returned" => wt_polls' = wt_polls]_vars

\* C30's case: the longest wait ran out after MaxWait*3 + 1 polls.
C30_Witness ==
    /\ wt_pc = "returned"
    /\ wt_max = MaxWait
    /\ wt_result = "False"
    /\ wt_polls = MaxWait * 3 + 1
    /\ wt_seen[wt_polls] = "running"

====
